---- MODULE Spec2Model ----
(***************************************************************************)
(* State-machine model of src/vehicle_counter.py: VehicleTracker and       *)
(* VehicleCounter (greedy IoU association, track lifecycle, line-crossing  *)
(* detection, count aggregation).                                          *)
(*                                                                         *)
(* Conventions.                                                            *)
(*  - self.trackers is a Python dict; it is modelled as the sequence of    *)
(*    its values in insertion order (the order .items() and .keys() use).  *)
(*  - counts['IN'] / counts['OUT'] are defaultdict(int); each is modelled  *)
(*    as a function whose DOMAIN is the set of keys currently present.     *)
(*  - Python indices are 0-based, the sequences here are 1-based.          *)
(*  - datetime.now() is the variable now (whole seconds); one call of an   *)
(*    operation reads a single value of it.                                *)
(*  - None is the string "None".                                           *)
(***************************************************************************)
EXTENDS Integers, Sequences, FiniteSets, TLC

VARIABLES
    trackers,        \* VehicleCounter.trackers
    next_track_id,   \* VehicleCounter.next_track_id
    counts,          \* VehicleCounter.counts
    total_counts,    \* VehicleCounter.total_counts
    now,             \* the wall clock read by datetime.now()
    lastOp,          \* history: the last call, its inputs' line and its return value
    created,         \* history: ids given to new tracks, in creation order
    countLog,        \* history: one entry per execution of lines 231-232
    becameCounted,   \* history: tracks whose counted flag rose since the last reset
    line_position,   \* VehicleCounter.line_position, as the pair <<numerator, denominator>>
    threads,         \* app.py: where each request thread of the Flask application is
    vehicle_counter_global,  \* app.py line 44: the module global, 0 for None, else an instance
    vehicle_counter, \* app.py lines 156, 430, 452: each thread's local, 0 before it is assigned
    constructed      \* history: how many VehicleCounter instances app.py has constructed

vars == <<trackers, next_track_id, counts, total_counts, now, lastOp, created,
          countLog, becameCounted, line_position, threads,
          vehicle_counter_global, vehicle_counter, constructed>>

\* the state of get_vehicle_counter in app.py
appVars == <<vehicle_counter_global, vehicle_counter, constructed>>

---------------------------------------------------------------------------
(* Bounds of the model *)

MaxTracks == 2      \* ids handed out in one behaviour
MaxPos == 6         \* longest position history a track may grow to
MaxNow == 3         \* last value of the clock
MaxDets == 2        \* detections in one frame of the two-lane stream
MaxLaneTracks == 3  \* ids handed out in one behaviour of the two-lane stream
MaxLanePos == 2     \* longest position history in the two-lane stream
MaxFreeSteps == 3   \* frames of the long-track stream in which the car may take a double step
MaxDequeX == 170    \* where the long-track stream ends
MaxCarsIn == 12     \* cars counted IN before the query stream starts
MaxCarsOut == 3     \* cars counted OUT before the query stream starts
MaxCoord == 2       \* largest box coordinate of the IoU stream
MaxHistory == 3     \* longest position history of the crossing stream
MaxX == 3           \* largest x of the crossing stream
MaxSamples == 6     \* longest position history of the direction stream
MaxTurnPos == 7     \* longest position history of the turning stream

(* Program constants *)

max_age == 2
maxlen == 30
min_positions == 5
displacement_threshold == 30

min_iou == <<3, 10>>                       \* best_iou = 0.3
default_line_position == <<1, 2>>          \* line_position=0.5
direction_mapping == [LEFT |-> "OUT", RIGHT |-> "IN"]

Events == {"IN", "OUT"}
Categories == {"Car", "Bus"}

\* request threads of the Flask application (app.run(threaded=True)): one
\* streams /video_feed, one serves the API routes
Threads == {"video_feed", "api"}

---------------------------------------------------------------------------
(* Inputs: what the detector and the camera may hand to update *)

Boxes == {<<80, 0, 400, 100>>, <<240, 0, 560, 100>>}
Confidences == {90}
Detections ==
    [bbox : Boxes, display_category : Categories, confidence : Confidences]
FrameShapes == {<<480, 640>>, <<960, 1280>>}
Capacities == {100}

\* one vehicle at a time in front of the camera: frames of at most one detection
Frames == {<<>>} \cup {<<d>> : d \in Detections}

\* the two-lane stream: standing vehicles in two lanes, several in one frame
LaneBoxes == {<<0, 0, 100, 100>>, <<0, 200, 100, 300>>}
LaneDetections ==
    [bbox : LaneBoxes, display_category : {"Car"}, confidence : Confidences]
LaneFrames == UNION {[1..n -> LaneDetections] : n \in 0..MaxDets}
LaneShape == <<480, 640>>

\* the scenario stream: one car, boxes 160 wide centred at x, frame 400 wide
ScenarioXs == {100, 120, 140, 160, 180, 200, 220, 240, 260}
ScenarioDetection(x) ==
    [bbox |-> <<x - 80, 100, x + 80, 200>>, display_category |-> "Car", confidence |-> 90]
ScenarioShape == <<300, 400>>

---------------------------------------------------------------------------
(* Generic helpers *)

RECURSIVE SumSeq(_)
SumSeq(s) == IF s = <<>> THEN 0 ELSE Head(s) + SumSeq(Tail(s))

RECURSIVE SumFun(_, _)
SumFun(f, D) ==
    IF D = {} THEN 0
    ELSE LET k == CHOOSE k \in D : TRUE IN f[k] + SumFun(f, D \ {k})

Range(s) == {s[i] : i \in DOMAIN s}

Max2(a, b) == IF a >= b THEN a ELSE b
Min2(a, b) == IF a <= b THEN a ELSE b

\* int(): truncation towards zero of p / q, q > 0
IntDiv(p, q) == IF p >= 0 THEN p \div q ELSE -((-p) \div q)

---------------------------------------------------------------------------
(* class VehicleTracker *)

get_center(bbox) ==
    <<IntDiv(bbox[1] + bbox[3], 2), IntDiv(bbox[2] + bbox[4], 2)>>

\* mutant: the history is a plain list, nothing is ever dropped
MutDequeUnbounded(positions, p) == Append(positions, p)

\* deque(maxlen=30).append: the oldest entry is dropped when the deque is full
deque_append(positions, p) ==
    IF Len(positions) >= maxlen THEN Append(Tail(positions), p)
    ELSE Append(positions, p)

VehicleTracker(track_id, bbox, category, confidence) ==
    [track_id |-> track_id,
     category |-> category,
     confidence |-> confidence,
     positions |-> deque_append(<<>>, get_center(bbox)),
     bbox |-> bbox,
     counted |-> FALSE,
     direction |-> "None",
     crossed_line |-> FALSE,
     last_seen |-> now]

tracker_update(tracker, bbox) ==
    [tracker EXCEPT !.bbox = bbox,
                    !.positions = deque_append(tracker.positions, get_center(bbox)),
                    !.last_seen = now]

\* mutant: the first and the last position are compared, not the means of five
MutDirectionFirstLast(tracker) ==
    LET p == tracker.positions
        n == Len(p)
        displacement == p[n][1] - p[1][1]
    IN  IF displacement > displacement_threshold THEN "RIGHT"
        ELSE IF displacement < -displacement_threshold THEN "LEFT"
        ELSE "None"

RECURSIVE Pow2(_)
Pow2(k) == IF k = 0 THEN 1 ELSE 2 * Pow2(k - 1)

\* np.mean of five integers whose sum is n is the double nearest to n / 5.
\* MeanError(n) is five times (that double - n / 5), in units of 2^-55:
\* with 2^e <= n / 5 < 2^(e + 1) and k = e + 3, the double is a multiple of
\* 2^(e - 52), and n * 2^(52 - e) leaves the remainder r when divided by 5;
\* the quotient is rounded down for r = 1, 2 and up for r = 3, 4.
MeanError(n) ==
    IF n = 0 THEN 0
    ELSE LET a == IF n > 0 THEN n ELSE -n
             k == CHOOSE j \in 0..24 : 5 * Pow2(j) <= 8 * a /\ 8 * a < 5 * Pow2(j + 1)
             r == ((a % 5) * (Pow2((55 - k) % 4) % 5)) % 5
             c == IF r = 0 THEN 0 ELSE IF r = 1 THEN -1 ELSE IF r = 2 THEN -2
                  ELSE IF r = 3 THEN 2 ELSE 1
         IN  (IF n > 0 THEN 1 ELSE -1) * c * Pow2(k)

\* abs(end_x - start_x) > 30 on the doubles end_x = end_sum / 5 and start_x =
\* start_sum / 5. When the sums do not differ by exactly 5 * 30 the rounding
\* of the two means and of their difference (at most 2^-40 for |sum| < 2^14)
\* cannot change the side of 30 the difference is on. When they do, the
\* difference of the doubles is 30 + t with 5 * t = MeanError(end_sum) -
\* MeanError(start_sum) in units of 2^-55; it is rounded to a multiple of
\* 2^-48, ties to 30, so the result exceeds 30 exactly when t > 2^-49.
ExceedsThreshold(start_sum, end_sum) ==
    LET displacement5 == end_sum - start_sum
        magnitude5 == IF displacement5 >= 0 THEN displacement5 ELSE -displacement5
        excess5 == IF displacement5 >= 0
                   THEN MeanError(end_sum) - MeanError(start_sum)
                   ELSE MeanError(start_sum) - MeanError(end_sum)
    IN  IF magnitude5 # min_positions * displacement_threshold
        THEN magnitude5 > min_positions * displacement_threshold
        ELSE excess5 > 5 * Pow2(6)

\* mutant: the means are taken over the first two and the last two positions
MutDirectionShortWindow(tracker) ==
    LET p == tracker.positions
        n == Len(p)
    IN  IF n < 2 THEN "None"
        ELSE LET start_sum == p[1][1] + p[2][1]
                 end_sum == p[n - 1][1] + p[n][1]
             IN  IF end_sum - start_sum > 2 * displacement_threshold THEN "RIGHT"
                 ELSE IF start_sum - end_sum > 2 * displacement_threshold THEN "LEFT"
                 ELSE "None"

\* np.mean over five integers is the double nearest to sum / 5
get_trajectory_direction(tracker) ==
    LET p == tracker.positions
        n == Len(p)
    IN  IF n < min_positions THEN "None"
        ELSE LET start_sum == SumSeq([i \in 1..min_positions |-> p[i][1]])
                 end_sum == SumSeq([i \in 1..min_positions |-> p[n - min_positions + i][1]])
             IN  IF ExceedsThreshold(start_sum, end_sum)
                 THEN (IF end_sum - start_sum > 0 THEN "RIGHT" ELSE "LEFT")
                 ELSE "None"

\* mutant: age >= max_age_seconds
MutIsStaleGe(tracker, max_age_seconds) ==
    LET age == now - tracker.last_seen
    IN  age >= max_age_seconds

\* mutant: age > max_age_seconds + 1
MutIsStaleLate(tracker, max_age_seconds) ==
    LET age == now - tracker.last_seen
    IN  age > max_age_seconds + 1

is_stale(tracker, max_age_seconds) ==
    LET age == now - tracker.last_seen
    IN  age > max_age_seconds

---------------------------------------------------------------------------
(* class VehicleCounter: pure helpers *)

EmptyDict == [c \in {} |-> 0]

\* defaultdict(int).__getitem__ value
DictGet(d, k) == IF k \in DOMAIN d THEN d[k] ELSE 0

\* defaultdict(int): d[k] += 1
DictIncr(d, k) == [c \in DOMAIN d \cup {k} |-> DictGet(d, c) + (IF c = k THEN 1 ELSE 0)]

\* defaultdict(int): a read of d[k] inserts k with value 0
DictTouch(d, k) == [c \in DOMAIN d \cup {k} |-> DictGet(d, c)]

\* Python's p / q: the quotient as the pair <<p, q>>; a division by zero raises
\* ZeroDivisionError, which is the pair with denominator 0
ZeroDivisionError == <<1, 0>>
Divide(p, q) == IF q = 0 THEN ZeroDivisionError ELSE <<p, q>>

\* mutant: the quotient is taken whatever the union area
MutIouNoGuard(box1, box2) ==
    LET inter_x_min == Max2(box1[1], box2[1])
        inter_y_min == Max2(box1[2], box2[2])
        inter_x_max == Min2(box1[3], box2[3])
        inter_y_max == Min2(box1[4], box2[4])
        inter_area == Max2(0, inter_x_max - inter_x_min) * Max2(0, inter_y_max - inter_y_min)
        box1_area == (box1[3] - box1[1]) * (box1[4] - box1[2])
        box2_area == (box2[3] - box2[1]) * (box2[4] - box2[2])
        union_area == box1_area + box2_area - inter_area
    IN  Divide(inter_area, union_area)

\* mutant: the intersection is divided by the area of the first box
MutIouOverFirst(box1, box2) ==
    LET inter_x_min == Max2(box1[1], box2[1])
        inter_y_min == Max2(box1[2], box2[2])
        inter_x_max == Min2(box1[3], box2[3])
        inter_y_max == Min2(box1[4], box2[4])
        inter_area == Max2(0, inter_x_max - inter_x_min) * Max2(0, inter_y_max - inter_y_min)
        box1_area == (box1[3] - box1[1]) * (box1[4] - box1[2])
        box2_area == (box2[3] - box2[1]) * (box2[4] - box2[2])
        union_area == box1_area + box2_area - inter_area
    IN  IF union_area > 0 /\ box1_area > 0 THEN Divide(inter_area, box1_area) ELSE <<0, 1>>

\* IoU as the pair <<numerator, denominator>>, denominator > 0
calculate_iou(box1, box2) ==
    LET inter_x_min == Max2(box1[1], box2[1])
        inter_y_min == Max2(box1[2], box2[2])
        inter_x_max == Min2(box1[3], box2[3])
        inter_y_max == Min2(box1[4], box2[4])
        inter_area == Max2(0, inter_x_max - inter_x_min) * Max2(0, inter_y_max - inter_y_min)
        box1_area == (box1[3] - box1[1]) * (box1[4] - box1[2])
        box2_area == (box2[3] - box2[1]) * (box2[4] - box2[2])
        union_area == box1_area + box2_area - inter_area
    IN  IF union_area > 0 THEN Divide(inter_area, union_area) ELSE <<0, 1>>

\* a > b for two such pairs
IouGreater(a, b) == a[1] * b[2] > b[1] * a[2]

Keys(trk) == [i \in DOMAIN trk |-> trk[i].track_id]

IndexOf(trk, id) == CHOOSE i \in DOMAIN trk : trk[i].track_id = id

HasKey(trk, id) == \E i \in DOMAIN trk : trk[i].track_id = id

\* dict assignment trackers[id] = t: replaces in place, or appends a new key
DictSet(trk, id, t) ==
    IF HasKey(trk, id) THEN [trk EXCEPT ![IndexOf(trk, id)] = t] ELSE Append(trk, t)

\* del trackers[id]
DictDel(trk, id) == SelectSeq(trk, LAMBDA t : t.track_id # id)

\* mutant: a tracker whose IoU is not below the best so far is taken
RECURSIVE MutBestTrackerGe(_, _, _, _, _, _)
MutBestTrackerGe(trk, det_bbox, t, matched_trackers, best_iou, best_tracker_idx) ==
    IF t > Len(trk) THEN best_tracker_idx
    ELSE IF t \in matched_trackers
         THEN MutBestTrackerGe(trk, det_bbox, t + 1, matched_trackers, best_iou,
                               best_tracker_idx)
         ELSE LET iou == calculate_iou(det_bbox, trk[t].bbox)
              IN  IF ~IouGreater(best_iou, iou)
                  THEN MutBestTrackerGe(trk, det_bbox, t + 1, matched_trackers, iou, t)
                  ELSE MutBestTrackerGe(trk, det_bbox, t + 1, matched_trackers, best_iou,
                                        best_tracker_idx)

\* inner loop of the greedy matching (lines 153-158), from tracker index t on
RECURSIVE BestTracker(_, _, _, _, _, _)
BestTracker(trk, det_bbox, t, matched_trackers, best_iou, best_tracker_idx) ==
    IF t > Len(trk) THEN best_tracker_idx
    ELSE IF t \in matched_trackers
         THEN BestTracker(trk, det_bbox, t + 1, matched_trackers, best_iou, best_tracker_idx)
         ELSE LET iou == calculate_iou(det_bbox, trk[t].bbox)
              IN  IF IouGreater(iou, best_iou)
                  THEN BestTracker(trk, det_bbox, t + 1, matched_trackers, iou, t)
                  ELSE BestTracker(trk, det_bbox, t + 1, matched_trackers, best_iou,
                                   best_tracker_idx)

\* mutant: a tracker claimed by one detection stays available to the next ones
RECURSIVE MutGreedyNoClaim(_, _, _, _, _, _)
MutGreedyNoClaim(trk, detections, d, matched, unmatched_detections, matched_trackers) ==
    IF d > Len(detections)
    THEN [matched |-> matched, unmatched_detections |-> unmatched_detections]
    ELSE LET best_tracker_idx ==
                 BestTracker(trk, detections[d].bbox, 1, {}, min_iou, 0)
         IN  IF best_tracker_idx >= 1
             THEN MutGreedyNoClaim(trk, detections, d + 1,
                                   Append(matched, <<d, trk[best_tracker_idx].track_id>>),
                                   unmatched_detections, {})
             ELSE MutGreedyNoClaim(trk, detections, d + 1, matched,
                                   Append(unmatched_detections, d), {})

\* mutant: the detections are taken from the last to the first
RECURSIVE MutGreedyReverse(_, _, _, _, _, _)
MutGreedyReverse(trk, detections, d, matched, unmatched_detections, matched_trackers) ==
    IF d > Len(detections)
    THEN [matched |-> matched, unmatched_detections |-> unmatched_detections]
    ELSE LET r == Len(detections) - d + 1
             best_tracker_idx ==
                 BestTracker(trk, detections[r].bbox, 1, matched_trackers, min_iou, 0)
         IN  IF best_tracker_idx >= 1
             THEN MutGreedyReverse(trk, detections, d + 1,
                                   Append(matched, <<r, trk[best_tracker_idx].track_id>>),
                                   unmatched_detections,
                                   matched_trackers \cup {best_tracker_idx})
             ELSE MutGreedyReverse(trk, detections, d + 1, matched,
                                   Append(unmatched_detections, r), matched_trackers)

\* outer loop of the greedy matching (lines 149-165), from detection d on;
\* matched is the dict det index -> track id as the sequence of its items
RECURSIVE GreedyMatch(_, _, _, _, _, _)
GreedyMatch(trk, detections, d, matched, unmatched_detections, matched_trackers) ==
    IF d > Len(detections)
    THEN [matched |-> matched, unmatched_detections |-> unmatched_detections]
    ELSE LET best_tracker_idx ==
                 BestTracker(trk, detections[d].bbox, 1, matched_trackers, min_iou, 0)
         IN  IF best_tracker_idx >= 1
             THEN GreedyMatch(trk, detections, d + 1,
                              Append(matched, <<d, trk[best_tracker_idx].track_id>>),
                              unmatched_detections,
                              matched_trackers \cup {best_tracker_idx})
             ELSE GreedyMatch(trk, detections, d + 1, matched,
                              Append(unmatched_detections, d), matched_trackers)

\* lines 136-141: the IoU of every detection with every tracker is computed
\* first; an exception raised there ends the call
iou_matrix_raises(trk, detections) ==
    /\ Len(trk) # 0
    /\ Len(detections) # 0
    /\ \E d \in DOMAIN detections, t \in DOMAIN trk :
          calculate_iou(detections[d].bbox, trk[t].bbox) = ZeroDivisionError

match_detections_to_trackers(trk, detections) ==
    IF Len(trk) = 0
    THEN [matched |-> <<>>, unmatched_detections |-> [i \in 1..Len(detections) |-> i]]
    ELSE IF Len(detections) = 0
         THEN [matched |-> <<>>, unmatched_detections |-> <<>>]
         ELSE GreedyMatch(trk, detections, 1, <<>>, <<>>, {})

\* mutant: the new side of the line is exclusive too
MutCrossingStrict(tracker, line_x) ==
    IF Len(tracker.positions) < 2 THEN FALSE
    ELSE LET n == Len(tracker.positions)
             prev_pos == tracker.positions[n - 1]
             curr_pos == tracker.positions[n]
         IN  (prev_pos[1] < line_x /\ line_x < curr_pos[1])
             \/ (prev_pos[1] > line_x /\ line_x > curr_pos[1])

\* mutant: the first and the last position are compared
MutCrossingFirstLast(tracker, line_x) ==
    IF Len(tracker.positions) < 2 THEN FALSE
    ELSE LET n == Len(tracker.positions)
             prev_pos == tracker.positions[1]
             curr_pos == tracker.positions[n]
         IN  (prev_pos[1] < line_x /\ line_x <= curr_pos[1])
             \/ (prev_pos[1] > line_x /\ line_x >= curr_pos[1])

\* mutant: any two consecutive positions of the history may form the crossing
MutCrossingAnyPair(tracker, line_x) ==
    IF Len(tracker.positions) < 2 THEN FALSE
    ELSE \E n \in 2..Len(tracker.positions) :
             LET prev_pos == tracker.positions[n - 1]
                 curr_pos == tracker.positions[n]
             IN  (prev_pos[1] < line_x /\ line_x <= curr_pos[1])
                 \/ (prev_pos[1] > line_x /\ line_x >= curr_pos[1])

check_line_crossing(tracker, line_x) ==
    IF Len(tracker.positions) < 2 THEN FALSE
    ELSE LET n == Len(tracker.positions)
             prev_pos == tracker.positions[n - 1]
             curr_pos == tracker.positions[n]
         IN  (prev_pos[1] < line_x /\ line_x <= curr_pos[1])
             \/ (prev_pos[1] > line_x /\ line_x >= curr_pos[1])

\* line_x = int(width * self.line_position)
LineX(frame_shape) == IntDiv(frame_shape[2] * line_position[1], line_position[2])

---------------------------------------------------------------------------
(* VehicleCounter.update, phase by phase.  A phase maps the record e of the *)
(* engine's fields (and the local trackers_to_remove) to the record after.  *)

\* mutant: the matched track takes the category of the detection as well
RECURSIVE MutUpdateRelabels(_, _, _)
MutUpdateRelabels(e, detections, matched) ==
    IF matched = <<>> THEN e
    ELSE LET detection == detections[Head(matched)[1]]
             track_id == Head(matched)[2]
             i == IndexOf(e.trackers, track_id)
             t == [tracker_update(e.trackers[i], detection.bbox)
                      EXCEPT !.confidence = detection.confidence,
                             !.category = detection.display_category]
         IN  MutUpdateRelabels([e EXCEPT !.trackers[i] = t], detections, Tail(matched))

\* mutant: the update refreshes last_seen of every live track
RECURSIVE MutUpdateTouchesAll(_, _, _)
MutUpdateTouchesAll(e, detections, matched) ==
    IF matched = <<>>
    THEN [e EXCEPT !.trackers = [i \in DOMAIN @ |-> [@[i] EXCEPT !.last_seen = now]]]
    ELSE LET detection == detections[Head(matched)[1]]
             track_id == Head(matched)[2]
             i == IndexOf(e.trackers, track_id)
             t == [tracker_update(e.trackers[i], detection.bbox)
                      EXCEPT !.confidence = detection.confidence]
         IN  MutUpdateTouchesAll([e EXCEPT !.trackers[i] = t], detections, Tail(matched))

\* lines 192-195: for det_idx, track_id in matched.items()
RECURSIVE update_matched(_, _, _)
update_matched(e, detections, matched) ==
    IF matched = <<>> THEN e
    ELSE LET detection == detections[Head(matched)[1]]
             track_id == Head(matched)[2]
             i == IndexOf(e.trackers, track_id)
             t == [tracker_update(e.trackers[i], detection.bbox)
                      EXCEPT !.confidence = detection.confidence]
         IN  update_matched([e EXCEPT !.trackers[i] = t], detections, Tail(matched))

\* mutant: the new id is len(self.trackers) + 1
RECURSIVE MutCreateLenId(_, _, _)
MutCreateLenId(e, detections, unmatched_detections) ==
    IF unmatched_detections = <<>> THEN e
    ELSE LET detection == detections[Head(unmatched_detections)]
             track_id == Len(e.trackers) + 1
             tracker == VehicleTracker(track_id, detection.bbox,
                                       detection.display_category, detection.confidence)
         IN  MutCreateLenId(
                 [e EXCEPT !.next_track_id = track_id + 1,
                           !.trackers = DictSet(e.trackers, track_id, tracker),
                           !.created = Append(@, track_id)],
                 detections, Tail(unmatched_detections))

\* mutant: next_track_id is advanced once more when the loop is over
RECURSIVE MutCreateBurnsId(_, _, _)
MutCreateBurnsId(e, detections, unmatched_detections) ==
    IF unmatched_detections = <<>> THEN [e EXCEPT !.next_track_id = @ + 1]
    ELSE LET detection == detections[Head(unmatched_detections)]
             track_id == e.next_track_id
             tracker == VehicleTracker(track_id, detection.bbox,
                                       detection.display_category, detection.confidence)
         IN  MutCreateBurnsId(
                 [e EXCEPT !.next_track_id = track_id + 1,
                           !.trackers = DictSet(e.trackers, track_id, tracker),
                           !.created = Append(@, track_id)],
                 detections, Tail(unmatched_detections))

\* lines 198-209: for det_idx in unmatched_detections
RECURSIVE create_trackers(_, _, _)
create_trackers(e, detections, unmatched_detections) ==
    IF unmatched_detections = <<>> THEN e
    ELSE LET detection == detections[Head(unmatched_detections)]
             track_id == e.next_track_id
             tracker == VehicleTracker(track_id, detection.bbox,
                                       detection.display_category, detection.confidence)
         IN  create_trackers(
                 [e EXCEPT !.next_track_id = track_id + 1,
                           !.trackers = DictSet(e.trackers, track_id, tracker),
                           !.created = Append(@, track_id)],
                 detections, Tail(unmatched_detections))

\* mutant: the test "not tracker.counted" is missing
MutCountNoFlagTest(e, track_id, line_x) ==
    LET i == IndexOf(e.trackers, track_id)
        tracker == e.trackers[i]
    IN  IF is_stale(tracker, max_age)
        THEN [e EXCEPT !.trackers_to_remove = Append(@, track_id)]
        ELSE IF check_line_crossing(tracker, line_x)
             THEN LET direction == get_trajectory_direction(tracker)
                  IN  IF direction \in DOMAIN direction_mapping
                      THEN LET count_type == direction_mapping[direction]
                           IN  [e EXCEPT
                                  !.trackers[i] = [tracker EXCEPT !.direction = count_type,
                                                                  !.counted = TRUE,
                                                                  !.crossed_line = TRUE],
                                  !.counts[count_type] = DictIncr(@, tracker.category),
                                  !.total_counts[count_type] = @ + 1,
                                  !.countLog = Append(@, [id |-> track_id,
                                                          event |-> count_type,
                                                          category |-> tracker.category])]
                      ELSE e
             ELSE e

\* mutant: "tracker.counted = True" is missing
MutCountForgetsFlag(e, track_id, line_x) ==
    LET i == IndexOf(e.trackers, track_id)
        tracker == e.trackers[i]
    IN  IF is_stale(tracker, max_age)
        THEN [e EXCEPT !.trackers_to_remove = Append(@, track_id)]
        ELSE IF ~tracker.counted /\ check_line_crossing(tracker, line_x)
             THEN LET direction == get_trajectory_direction(tracker)
                  IN  IF direction \in DOMAIN direction_mapping
                      THEN LET count_type == direction_mapping[direction]
                           IN  [e EXCEPT
                                  !.trackers[i] = [tracker EXCEPT !.direction = count_type,
                                                                  !.crossed_line = TRUE],
                                  !.counts[count_type] = DictIncr(@, tracker.category),
                                  !.total_counts[count_type] = @ + 1,
                                  !.countLog = Append(@, [id |-> track_id,
                                                          event |-> count_type,
                                                          category |-> tracker.category])]
                      ELSE e
             ELSE e

\* mutant: the track is marked counted but its direction is not set
MutCountNoDirection(e, track_id, line_x) ==
    LET i == IndexOf(e.trackers, track_id)
        tracker == e.trackers[i]
    IN  IF is_stale(tracker, max_age)
        THEN [e EXCEPT !.trackers_to_remove = Append(@, track_id)]
        ELSE IF ~tracker.counted /\ check_line_crossing(tracker, line_x)
             THEN LET direction == get_trajectory_direction(tracker)
                  IN  IF direction \in DOMAIN direction_mapping
                      THEN LET count_type == direction_mapping[direction]
                           IN  [e EXCEPT
                                  !.trackers[i] = [tracker EXCEPT !.counted = TRUE,
                                                                  !.crossed_line = TRUE],
                                  !.counts[count_type] = DictIncr(@, tracker.category),
                                  !.total_counts[count_type] = @ + 1,
                                  !.countLog = Append(@, [id |-> track_id,
                                                          event |-> count_type,
                                                          category |-> tracker.category])]
                      ELSE e
             ELSE e

\* mutant: every resolved crossing is counted as IN
MutCountAlwaysIn(e, track_id, line_x) ==
    LET i == IndexOf(e.trackers, track_id)
        tracker == e.trackers[i]
    IN  IF is_stale(tracker, max_age)
        THEN [e EXCEPT !.trackers_to_remove = Append(@, track_id)]
        ELSE IF ~tracker.counted /\ check_line_crossing(tracker, line_x)
             THEN LET direction == get_trajectory_direction(tracker)
                  IN  IF direction \in DOMAIN direction_mapping
                      THEN LET count_type == "IN"
                           IN  [e EXCEPT
                                  !.trackers[i] = [tracker EXCEPT !.direction = count_type,
                                                                  !.counted = TRUE,
                                                                  !.crossed_line = TRUE],
                                  !.counts[count_type] = DictIncr(@, tracker.category),
                                  !.total_counts[count_type] = @ + 1,
                                  !.countLog = Append(@, [id |-> track_id,
                                                          event |-> count_type,
                                                          category |-> tracker.category])]
                      ELSE e
             ELSE e

\* mutant: a track seen in this very call is left for a later call to count
MutCountSkipsFresh(e, track_id, line_x) ==
    LET i == IndexOf(e.trackers, track_id)
        tracker == e.trackers[i]
    IN  IF is_stale(tracker, max_age)
        THEN [e EXCEPT !.trackers_to_remove = Append(@, track_id)]
        ELSE IF ~tracker.counted /\ tracker.last_seen < now
                                 /\ check_line_crossing(tracker, line_x)
             THEN LET direction == get_trajectory_direction(tracker)
                  IN  IF direction \in DOMAIN direction_mapping
                      THEN LET count_type == direction_mapping[direction]
                           IN  [e EXCEPT
                                  !.trackers[i] = [tracker EXCEPT !.direction = count_type,
                                                                  !.counted = TRUE,
                                                                  !.crossed_line = TRUE],
                                  !.counts[count_type] = DictIncr(@, tracker.category),
                                  !.total_counts[count_type] = @ + 1,
                                  !.countLog = Append(@, [id |-> track_id,
                                                          event |-> count_type,
                                                          category |-> tracker.category])]
                      ELSE e
             ELSE e

\* lines 216-234: the body of the counting loop for one tracker
count_tracker(e, track_id, line_x) ==
    LET i == IndexOf(e.trackers, track_id)
        tracker == e.trackers[i]
    IN  IF is_stale(tracker, max_age)
        THEN [e EXCEPT !.trackers_to_remove = Append(@, track_id)]
        ELSE IF ~tracker.counted /\ check_line_crossing(tracker, line_x)
             THEN LET direction == get_trajectory_direction(tracker)
                  IN  IF direction \in DOMAIN direction_mapping
                      THEN LET count_type == direction_mapping[direction]
                           IN  [e EXCEPT
                                  !.trackers[i] = [tracker EXCEPT !.direction = count_type,
                                                                  !.counted = TRUE,
                                                                  !.crossed_line = TRUE],
                                  !.counts[count_type] = DictIncr(@, tracker.category),
                                  !.total_counts[count_type] = @ + 1,
                                  !.countLog = Append(@, [id |-> track_id,
                                                          event |-> count_type,
                                                          category |-> tracker.category])]
                      ELSE e
             ELSE e

\* lines 214-234: for track_id, tracker in list(self.trackers.items())
RECURSIVE count_crossings(_, _, _)
count_crossings(e, track_ids, line_x) ==
    IF track_ids = <<>> THEN e
    ELSE count_crossings(count_tracker(e, Head(track_ids), line_x), Tail(track_ids), line_x)

\* mutant: removing a counted track takes its count back
RECURSIVE MutRemoveUncounts(_, _)
MutRemoveUncounts(e, trackers_to_remove) ==
    IF trackers_to_remove = <<>> THEN e
    ELSE LET t == e.trackers[IndexOf(e.trackers, Head(trackers_to_remove))]
             e1 == IF t.counted
                   THEN [e EXCEPT !.counts[t.direction] =
                                      [c \in DOMAIN @ |-> IF c = t.category /\ @[c] > 0
                                                          THEN @[c] - 1 ELSE @[c]],
                                  !.total_counts[t.direction] = IF @ > 0 THEN @ - 1 ELSE @]
                   ELSE e
         IN  MutRemoveUncounts([e1 EXCEPT !.trackers = DictDel(@, Head(trackers_to_remove))],
                               Tail(trackers_to_remove))

\* lines 237-238: for track_id in trackers_to_remove: del self.trackers[track_id]
RECURSIVE remove_stale(_, _)
remove_stale(e, trackers_to_remove) ==
    IF trackers_to_remove = <<>> THEN e
    ELSE remove_stale([e EXCEPT !.trackers = DictDel(@, Head(trackers_to_remove))],
                      Tail(trackers_to_remove))

Engine ==
    [trackers |-> trackers, next_track_id |-> next_track_id, counts |-> counts,
     total_counts |-> total_counts, trackers_to_remove |-> <<>>,
     created |-> created, countLog |-> countLog]

\* the tracks of after whose counted flag is TRUE and was not TRUE in before
Risen(before, after) ==
    {[id |-> t.track_id, event |-> t.direction, category |-> t.category] :
        t \in {u \in Range(after) :
                 /\ u.counted
                 /\ ~\E v \in Range(before) : v.track_id = u.track_id /\ v.counted}}

\* VehicleCounter.update(detections, frame_shape), lines 183-238, as one step.
\* An exception leaves the engine as it was and is what the call ends with.
\* max_tracks and max_pos bound the behaviours explored: the ids handed out
\* and the length a position history may grow to.
UpdateWithin(detections, frame_shape, max_tracks, max_pos) ==
    IF iou_matrix_raises(trackers, detections)
    THEN /\ lastOp' = [op |-> "update",
                       line_x |-> LineX(frame_shape),
                       width |-> frame_shape[2],
                       matched |-> {},
                       unmatched |-> 0,
                       evicted |-> {},
                       counts_before_removal |-> counts,
                       total_before_removal |-> total_counts,
                       ret |-> "ZeroDivisionError"]
         /\ UNCHANGED <<trackers, next_track_id, counts, total_counts, now, created,
                        countLog, becameCounted, line_position>>
    ELSE
        \E line_x \in {LineX(frame_shape)} :
        \E m \in {match_detections_to_trackers(trackers, detections)} :
        \E e1 \in {update_matched(Engine, detections, m.matched)} :
        \E e2 \in {create_trackers(e1, detections, m.unmatched_detections)} :
        \E e3 \in {count_crossings(e2, Keys(e2.trackers), line_x)} :
        \E e4 \in {remove_stale(e3, e3.trackers_to_remove)} :
            /\ next_track_id + Len(m.unmatched_detections) - 1 <= max_tracks
            /\ \A k \in DOMAIN m.matched :
                  Len(trackers[IndexOf(trackers, m.matched[k][2])].positions) < max_pos
            /\ trackers' = e4.trackers
            /\ next_track_id' = e4.next_track_id
            /\ counts' = e4.counts
            /\ total_counts' = e4.total_counts
            /\ countLog' = e4.countLog
            /\ becameCounted' = becameCounted \cup Risen(e2.trackers, e3.trackers)
            /\ created' = e4.created
            /\ lastOp' = [op |-> "update",
                          line_x |-> line_x,
                          width |-> frame_shape[2],
                          matched |-> {m.matched[k][2] : k \in DOMAIN m.matched},
                          unmatched |-> Len(m.unmatched_detections),
                          evicted |-> {t \in Range(e3.trackers) :
                                          ~HasKey(e4.trackers, t.track_id)},
                          counts_before_removal |-> e3.counts,
                          total_before_removal |-> e3.total_counts,
                          ret |-> "None"]
            /\ UNCHANGED <<now, line_position>>

\* mutant: total_counts is not reset
MutResetKeepsTotals ==
    /\ counts' = [IN |-> EmptyDict, OUT |-> EmptyDict]
    /\ total_counts' = total_counts
    /\ becameCounted' = {}
    /\ lastOp' = [op |-> "reset_counts", ret |-> "None"]
    /\ UNCHANGED <<trackers, next_track_id, now, created, countLog, line_position>>

\* mutant: the reset also clears the tracks' counted and direction flags
MutResetClearsFlags ==
    /\ counts' = [IN |-> EmptyDict, OUT |-> EmptyDict]
    /\ total_counts' = [IN |-> 0, OUT |-> 0]
    /\ trackers' = [i \in DOMAIN trackers |->
                       [trackers[i] EXCEPT !.counted = FALSE, !.direction = "None"]]
    /\ becameCounted' = {}
    /\ lastOp' = [op |-> "reset_counts", ret |-> "None"]
    /\ UNCHANGED <<next_track_id, now, created, countLog, line_position>>

reset_counts ==
    /\ counts' = [IN |-> EmptyDict, OUT |-> EmptyDict]
    /\ total_counts' = [IN |-> 0, OUT |-> 0]
    /\ becameCounted' = {}
    /\ lastOp' = [op |-> "reset_counts", ret |-> "None"]
    /\ UNCHANGED <<trackers, next_track_id, now, created, countLog, line_position>>

\* mutant: net_count is the sum of the two totals
MutGetCountsNetSum ==
    /\ lastOp' = [op |-> "get_counts",
                  ret |-> [in_counts |-> counts["IN"],
                           out_counts |-> counts["OUT"],
                           total_in |-> total_counts["IN"],
                           total_out |-> total_counts["OUT"],
                           net_count |-> total_counts["IN"] + total_counts["OUT"]]]
    /\ UNCHANGED <<trackers, next_track_id, counts, total_counts, now, created,
                   countLog, becameCounted, line_position>>

get_counts ==
    /\ lastOp' = [op |-> "get_counts",
                  ret |-> [in_counts |-> counts["IN"],
                           out_counts |-> counts["OUT"],
                           total_in |-> total_counts["IN"],
                           total_out |-> total_counts["OUT"],
                           net_count |-> total_counts["IN"] - total_counts["OUT"]]]
    /\ UNCHANGED <<trackers, next_track_id, counts, total_counts, now, created,
                   countLog, becameCounted, line_position>>

\* mutant: available is not clamped at 0
MutAvailabilityUnclamped(total_capacity) ==
    LET cars_in == DictGet(counts["IN"], "Car")
        cars_out == DictGet(counts["OUT"], "Car")
        net_cars == cars_in - cars_out
        available == total_capacity - net_cars
    IN  /\ counts' = [IN |-> DictTouch(counts["IN"], "Car"),
                      OUT |-> DictTouch(counts["OUT"], "Car")]
        /\ lastOp' = [op |-> "get_parking_availability",
                      ret |-> [total_capacity |-> total_capacity,
                               cars_in |-> cars_in,
                               cars_out |-> cars_out,
                               currently_parked |-> net_cars,
                               available |-> available,
                               occupancy_percent |->
                                   IF total_capacity > 0
                                   THEN <<net_cars * 100, total_capacity>>
                                   ELSE <<0, 1>>]]
        /\ UNCHANGED <<trackers, next_track_id, total_counts, now, created,
                       countLog, becameCounted, line_position>>

\* occupancy_percent is the pair <<numerator, denominator>> of net / capacity * 100
get_parking_availability(total_capacity) ==
    LET cars_in == DictGet(counts["IN"], "Car")
        cars_out == DictGet(counts["OUT"], "Car")
        net_cars == cars_in - cars_out
        available == total_capacity - net_cars
    IN  /\ counts' = [IN |-> DictTouch(counts["IN"], "Car"),
                      OUT |-> DictTouch(counts["OUT"], "Car")]
        /\ lastOp' = [op |-> "get_parking_availability",
                      ret |-> [total_capacity |-> total_capacity,
                               cars_in |-> cars_in,
                               cars_out |-> cars_out,
                               currently_parked |-> net_cars,
                               available |-> Max2(0, available),
                               occupancy_percent |->
                                   IF total_capacity > 0
                                   THEN <<net_cars * 100, total_capacity>>
                                   ELSE <<0, 1>>]]
        /\ UNCHANGED <<trackers, next_track_id, total_counts, now, created,
                       countLog, becameCounted, line_position>>

\* the wall clock advances between calls
Tick ==
    /\ now < MaxNow
    /\ now' = now + 1
    /\ lastOp' = [op |-> "tick", ret |-> "None"]
    /\ UNCHANGED <<trackers, next_track_id, counts, total_counts, created,
                   countLog, becameCounted, line_position>>

\* VehicleCounter.__init__ with the default arguments
Init ==
    /\ trackers = <<>>
    /\ next_track_id = 1
    /\ counts = [IN |-> EmptyDict, OUT |-> EmptyDict]
    /\ total_counts = [IN |-> 0, OUT |-> 0]
    /\ now = 0
    /\ lastOp = [op |-> "init", ret |-> "None"]
    /\ created = <<>>
    /\ countLog = <<>>
    /\ becameCounted = {}
    /\ line_position = default_line_position
    /\ threads = [t \in Threads |-> "idle"]
    /\ vehicle_counter_global = 0
    /\ vehicle_counter = [t \in Threads |-> 0]
    /\ constructed = 0

Update(detections, frame_shape) ==
    UpdateWithin(detections, frame_shape, MaxTracks, MaxPos)

\* one caller at a time: the calls follow one another
Next ==
    \/ \E detections \in Frames, frame_shape \in FrameShapes :
          Update(detections, frame_shape) /\ UNCHANGED <<threads, appVars>>
    \/ reset_counts /\ UNCHANGED <<threads, appVars>>
    \/ get_counts /\ UNCHANGED <<threads, appVars>>
    \/ \E total_capacity \in Capacities :
          get_parking_availability(total_capacity) /\ UNCHANGED <<threads, appVars>>
    \/ Tick /\ UNCHANGED <<threads, appVars>>

Spec == Init /\ [][Next]_vars

---------------------------------------------------------------------------
(* The two-lane stream: update on frames of several detections *)

UpdateLanes(detections) ==
    UpdateWithin(detections, LaneShape, MaxLaneTracks, MaxLanePos)

\* the stream pauses for longer than max_age
Pause ==
    /\ now + max_age + 1 <= MaxNow
    /\ now' = now + max_age + 1
    /\ lastOp' = [op |-> "tick", ret |-> "None"]
    /\ UNCHANGED <<trackers, next_track_id, counts, total_counts, created,
                   countLog, becameCounted, line_position>>

NextLanes ==
    \/ \E detections \in LaneFrames : UpdateLanes(detections) /\ UNCHANGED <<threads, appVars>>
    \/ Pause /\ UNCHANGED <<threads, appVars>>

SpecLanes == Init /\ [][NextLanes]_vars

---------------------------------------------------------------------------
(* The stale-track stream: frames of at most one standing vehicle while the *)
(* clock advances. generate_frames calls update for every frame it reads,   *)
(* so update keeps being called: weak fairness on the update step.          *)

StaleFrames == {<<>>} \cup {<<d>> : d \in LaneDetections}

UpdateStale(detections) ==
    UpdateWithin(detections, LaneShape, MaxTracks, MaxLanePos)

NextStale ==
    \/ \E detections \in StaleFrames : UpdateStale(detections) /\ UNCHANGED <<threads, appVars>>
    \/ Tick /\ UNCHANGED <<threads, appVars>>

SpecStale ==
    /\ Init
    /\ [][NextStale]_vars
    /\ WF_vars(\E detections \in StaleFrames :
                  UpdateStale(detections) /\ UNCHANGED <<threads, appVars>>)

---------------------------------------------------------------------------
(* The scenario stream: a car is seen five times at x = 100 and then moves *)
(* right, matched on every frame, as far as x = 260                        *)

LastX(tracker) == tracker.positions[Len(tracker.positions)][1]

ScenarioUpdate(x) ==
    /\ IF trackers = <<>> \/ Len(trackers[1].positions) < min_positions
       THEN x = 100
       ELSE x > LastX(trackers[1])
    /\ UpdateWithin(<<ScenarioDetection(x)>>, ScenarioShape, 1, maxlen)

NextScenario == \E x \in ScenarioXs : ScenarioUpdate(x) /\ UNCHANGED <<threads, appVars>>

SpecScenario == Init /\ [][NextScenario]_vars

---------------------------------------------------------------------------
(* The long-track stream: one car creeps to the right, matched on every     *)
(* frame, for more frames than a position history holds                     *)

DequeUpdate(x) ==
    /\ IF trackers = <<>>
       THEN x = 100
       ELSE \/ x = LastX(trackers[1]) + 2
            \/ /\ Len(trackers[1].positions) <= MaxFreeSteps
               /\ x = LastX(trackers[1]) + 4
    /\ UpdateWithin(<<ScenarioDetection(x)>>, ScenarioShape, 1, maxlen + 1)

NextDeque == \E x \in 100..MaxDequeX : DequeUpdate(x) /\ UNCHANGED <<threads, appVars>>

SpecDeque == Init /\ [][NextDeque]_vars

---------------------------------------------------------------------------
(* The association stream: frames of several detections whose boxes overlap *)
(* one another in a chain (A with B, B with C, not A with C) or are         *)
(* degenerate (zero area, corners swapped); match_detections_to_trackers is *)
(* also called on its own                                                   *)

MatchBoxes ==
    {<<0, 0, 100, 100>>, <<40, 0, 140, 100>>, <<80, 0, 180, 100>>,
     <<50, 50, 50, 50>>, <<100, 0, 0, 100>>}
MatchDetections ==
    [bbox : MatchBoxes, display_category : {"Car"}, confidence : Confidences]
\* with the first box above, a box whose IoU is exactly 3/10
ThresholdBoxes == {<<0, 0, 30, 100>>}
AssociationDetections ==
    [bbox : MatchBoxes \cup ThresholdBoxes, display_category : {"Car"},
     confidence : Confidences]
MatchFrames == UNION {[1..n -> AssociationDetections] : n \in 0..MaxDets}

\* the first frame: every detection of it becomes a track (line 130)
SetUp(detections) ==
    /\ trackers = <<>>
    /\ UpdateWithin(detections, LaneShape, MaxDets, 1)

\* VehicleCounter.match_detections_to_trackers(detections), lines 127-167,
\* called on its own. The call changes nothing of the engine, so that one
\* call per engine state shows every result.
Match(detections) ==
    /\ lastOp.op = "update"
    /\ lastOp' = [op |-> "match_detections_to_trackers",
                  detections |-> detections,
                  n |-> Len(detections),
                  raised |-> IF iou_matrix_raises(trackers, detections)
                             THEN "ZeroDivisionError" ELSE "None",
                  ret |-> IF iou_matrix_raises(trackers, detections)
                          THEN [matched |-> <<>>, unmatched_detections |-> <<>>]
                          ELSE match_detections_to_trackers(trackers, detections)]
    /\ UNCHANGED <<trackers, next_track_id, counts, total_counts, now, created,
                   countLog, becameCounted, line_position>>

NextMatch ==
    \/ \E detections \in MatchFrames : SetUp(detections) /\ UNCHANGED <<threads, appVars>>
    \/ \E detections \in MatchFrames : Match(detections) /\ UNCHANGED <<threads, appVars>>

SpecMatch == Init /\ [][NextMatch]_vars

---------------------------------------------------------------------------
(* The relabelling stream: one vehicle that the detector reports now as a   *)
(* car (confidence 90), now as a bus (confidence 80), in overlapping boxes, *)
(* while the clock advances                                                 *)

RelabelBoxes == {<<0, 0, 100, 100>>, <<40, 0, 140, 100>>}
RelabelDetections ==
    {[bbox |-> b, display_category |-> "Car", confidence |-> 90] : b \in RelabelBoxes}
    \cup {[bbox |-> b, display_category |-> "Bus", confidence |-> 80] : b \in RelabelBoxes}
RelabelFrames == {<<>>} \cup {<<d>> : d \in RelabelDetections}

UpdateRelabel(detections) ==
    UpdateWithin(detections, LaneShape, MaxTracks, MaxLanePos)

NextRelabel ==
    \/ \E detections \in RelabelFrames : UpdateRelabel(detections) /\ UNCHANGED <<threads, appVars>>
    \/ Tick /\ UNCHANGED <<threads, appVars>>

SpecRelabel == Init /\ [][NextRelabel]_vars

---------------------------------------------------------------------------
(* The query stream: get_counts, get_parking_availability and reset_counts  *)
(* on an engine that has counted some cars in, some cars out and perhaps a  *)
(* bus in, and whose tracks have all been evicted since                     *)

QueryCapacities == {0, 10, 100}

\* the counting history of such an engine: tracks 1..car_in counted IN as
\* Car, the next car_out ones counted OUT as Car, the next bus_in ones IN as Bus
CountedHistory(car_in, car_out, bus_in) ==
    [k \in 1..(car_in + car_out + bus_in) |->
        [id |-> k,
         event |-> IF k > car_in /\ k <= car_in + car_out THEN "OUT" ELSE "IN",
         category |-> IF k > car_in + car_out THEN "Bus" ELSE "Car"]]

\* n increments of d[k], lines 231
DictOf(k, n) == IF n = 0 THEN EmptyDict ELSE [c \in {k} |-> n]

InitQueries ==
    \E car_in \in 0..MaxCarsIn, car_out \in 0..MaxCarsOut, bus_in \in 0..1 :
        /\ trackers = <<>>
        /\ next_track_id = car_in + car_out + bus_in + 1
        /\ counts = [IN |-> IF bus_in = 0 THEN DictOf("Car", car_in)
                            ELSE DictIncr(DictOf("Car", car_in), "Bus"),
                     OUT |-> DictOf("Car", car_out)]
        /\ total_counts = [IN |-> car_in + bus_in, OUT |-> car_out]
        /\ now = 0
        /\ lastOp = [op |-> "init", ret |-> "None"]
        /\ created = [k \in 1..(car_in + car_out + bus_in) |-> k]
        /\ countLog = CountedHistory(car_in, car_out, bus_in)
        /\ becameCounted = Range(CountedHistory(car_in, car_out, bus_in))
        /\ line_position = default_line_position
        /\ threads = [t \in Threads |-> "idle"]
        /\ vehicle_counter_global = 0
        /\ vehicle_counter = [t \in Threads |-> 0]
        /\ constructed = 0

NextQueries ==
    \/ get_counts /\ UNCHANGED <<threads, appVars>>
    \/ \E total_capacity \in QueryCapacities :
          get_parking_availability(total_capacity) /\ UNCHANGED <<threads, appVars>>
    \/ reset_counts /\ UNCHANGED <<threads, appVars>>

SpecQueries == InitQueries /\ [][NextQueries]_vars

---------------------------------------------------------------------------
(* The configuration stream: engines constructed with a line_position of    *)
(* the caller's, inside and outside the open interval (0, 1)                *)

LinePositions == {<<1, 2>>, <<1, 4>>, <<0, 1>>, <<1, 1>>, <<3, 2>>, <<-1, 2>>}

\* VehicleCounter.__init__(line_position), lines 67-93: the argument is stored
\* as it is given
Construct(line_position_arg) ==
    /\ trackers = <<>>
    /\ next_track_id = 1
    /\ counts = [IN |-> EmptyDict, OUT |-> EmptyDict]
    /\ total_counts = [IN |-> 0, OUT |-> 0]
    /\ now = 0
    /\ lastOp = [op |-> "init", ret |-> "None"]
    /\ created = <<>>
    /\ countLog = <<>>
    /\ becameCounted = {}
    /\ line_position = line_position_arg
    /\ threads = [t \in Threads |-> "idle"]
    /\ vehicle_counter_global = 0
    /\ vehicle_counter = [t \in Threads |-> 0]
    /\ constructed = 0

InitConfig == \E line_position_arg \in LinePositions : Construct(line_position_arg)

NextConfig ==
    \/ \E detections \in StaleFrames : UpdateStale(detections) /\ UNCHANGED <<threads, appVars>>
    \/ Tick /\ UNCHANGED <<threads, appVars>>

SpecConfig == InitConfig /\ [][NextConfig]_vars

---------------------------------------------------------------------------
(* The degenerate-box stream: frames of at most one detection whose box may *)
(* have zero area or swapped corners, while the clock advances              *)

DegenerateFrames == {<<>>} \cup {<<d>> : d \in MatchDetections}

UpdateDegenerate(detections) ==
    UpdateWithin(detections, LaneShape, MaxTracks, MaxLanePos)

NextDegenerate ==
    \/ \E detections \in DegenerateFrames :
          UpdateDegenerate(detections) /\ UNCHANGED <<threads, appVars>>
    \/ Tick /\ UNCHANGED <<threads, appVars>>

SpecDegenerate == Init /\ [][NextDegenerate]_vars

---------------------------------------------------------------------------
(* The application, src/app.py: every request runs in a thread of its own   *)
(* (app.run(threaded=True)) and works on the one counter that               *)
(* get_vehicle_counter returns. threads[t] is the method of the counter     *)
(* thread t is executing, "idle" between requests, or "api_vehicle_counts"  *)
(* between the two calls of that route. No lock is taken anywhere on the    *)
(* way to the counter (camera_lock, line 42, is never acquired). A call     *)
(* takes effect when it returns.                                            *)

CounterOps == {"update", "get_counts", "get_parking_availability", "reset_counts"}

\* the calls a request thread makes when it is not inside one:
\* generate_frames -> get_frame_with_counting -> update (line 103);
\* api_vehicle_counts -> get_counts (433), get_parking_availability (439);
\* api_reset_counts -> reset_counts (455)
NextCall(t, at) ==
    IF t = "video_feed" THEN {"update"}
    ELSE IF at = "api_vehicle_counts" THEN {"get_parking_availability"}
    ELSE {"get_counts", "reset_counts"}

AppCall(t) ==
    /\ threads[t] \notin CounterOps
    /\ \E op \in NextCall(t, threads[t]) : threads' = [threads EXCEPT ![t] = op]
    /\ UNCHANGED <<trackers, next_track_id, counts, total_counts, now, lastOp,
                   created, countLog, becameCounted, line_position>>

AppReturn(t) ==
    \/ /\ threads[t] = "update"
       /\ \E detections \in StaleFrames : UpdateStale(detections)
       /\ threads' = [threads EXCEPT ![t] = "idle"]
    \/ /\ threads[t] = "get_counts"
       /\ get_counts
       /\ threads' = [threads EXCEPT ![t] = "api_vehicle_counts"]
    \/ /\ threads[t] = "get_parking_availability"
       /\ \E total_capacity \in Capacities : get_parking_availability(total_capacity)
       /\ threads' = [threads EXCEPT ![t] = "idle"]
    \/ /\ threads[t] = "reset_counts"
       /\ reset_counts
       /\ threads' = [threads EXCEPT ![t] = "idle"]

NextApp == (\E t \in Threads : AppCall(t) \/ AppReturn(t)) /\ UNCHANGED appVars

SpecApp == Init /\ [][NextApp]_vars

---------------------------------------------------------------------------
(* The IoU stream: calculate_iou is called on two boxes whose corners are   *)
(* any four integers of a small grid (zero-area boxes and boxes with        *)
(* swapped corners included), and then on the same boxes in the other order *)

IouCoords == 0..MaxCoord
IouBoxes == IouCoords \X IouCoords \X IouCoords \X IouCoords

\* the caller has the two boxes in hand
InitIou ==
    \E box1 \in IouBoxes, box2 \in IouBoxes :
        /\ trackers = <<>>
        /\ next_track_id = 1
        /\ counts = [IN |-> EmptyDict, OUT |-> EmptyDict]
        /\ total_counts = [IN |-> 0, OUT |-> 0]
        /\ now = 0
        /\ lastOp = [op |-> "init", box1 |-> box1, box2 |-> box2]
        /\ created = <<>>
        /\ countLog = <<>>
        /\ becameCounted = {}
        /\ line_position = default_line_position
        /\ threads = [t \in Threads |-> "idle"]
        /\ vehicle_counter_global = 0
        /\ vehicle_counter = [t \in Threads |-> 0]
        /\ constructed = 0

\* VehicleCounter.calculate_iou(box1, box2) and calculate_iou(box2, box1),
\* lines 103-121: the method reads and writes no field of the engine
CallIou ==
    /\ lastOp.op = "init"
    /\ lastOp' = [op |-> "calculate_iou",
                  box1 |-> lastOp.box1,
                  box2 |-> lastOp.box2,
                  ret |-> calculate_iou(lastOp.box1, lastOp.box2),
                  ret_swapped |-> calculate_iou(lastOp.box2, lastOp.box1)]
    /\ UNCHANGED <<trackers, next_track_id, counts, total_counts, now, created,
                   countLog, becameCounted, line_position>>

NextIou == CallIou /\ UNCHANGED <<threads, appVars>>

SpecIou == InitIou /\ [][NextIou]_vars

---------------------------------------------------------------------------
(* The crossing stream: check_line_crossing is called on a track with any   *)
(* short history of positions and any line of a small grid                  *)

CrossingXs == 0..MaxX
CrossingLines == -1..(MaxX + 1)

\* a box whose centre is (x, 1)
BoxAt(x) == <<x - 1, 0, x + 1, 2>>

\* the track made by VehicleTracker(...) at xs[1] and one update(bbox) for
\* each later entry of xs
RECURSIVE TrackOf(_)
TrackOf(xs) ==
    IF Len(xs) = 1 THEN VehicleTracker(1, BoxAt(xs[1]), "Car", 90)
    ELSE tracker_update(TrackOf(SubSeq(xs, 1, Len(xs) - 1)), BoxAt(xs[Len(xs)]))

\* the engine as constructed, and the arguments the caller has in hand
InitArgs(args) ==
    /\ trackers = <<>>
    /\ next_track_id = 1
    /\ counts = [IN |-> EmptyDict, OUT |-> EmptyDict]
    /\ total_counts = [IN |-> 0, OUT |-> 0]
    /\ now = 0
    /\ lastOp = args
    /\ created = <<>>
    /\ countLog = <<>>
    /\ becameCounted = {}
    /\ line_position = default_line_position
    /\ threads = [t \in Threads |-> "idle"]
    /\ vehicle_counter_global = 0
    /\ vehicle_counter = [t \in Threads |-> 0]
    /\ constructed = 0

InitCrossing ==
    \E n \in 1..MaxHistory : \E xs \in [1..n -> CrossingXs] : \E line_x \in CrossingLines :
        InitArgs([op |-> "init", tracker |-> TrackOf(xs), line_x |-> line_x])

\* VehicleCounter.check_line_crossing(tracker, line_x), lines 169-181
CallCrossing ==
    /\ lastOp.op = "init"
    /\ lastOp' = [op |-> "check_line_crossing",
                  tracker |-> lastOp.tracker,
                  line_x |-> lastOp.line_x,
                  ret |-> check_line_crossing(lastOp.tracker, lastOp.line_x)]
    /\ UNCHANGED <<trackers, next_track_id, counts, total_counts, now, created,
                   countLog, becameCounted, line_position>>

NextCrossing == CallCrossing /\ UNCHANGED <<threads, appVars>>

SpecCrossing == InitCrossing /\ [][NextCrossing]_vars

---------------------------------------------------------------------------
(* The direction stream: get_trajectory_direction is called on a track      *)
(* whose positions are at x = 2, 152 or 153, so that the means of the first *)
(* and of the last five differ by less than 30, by 30 and by more than 30   *)

DirectionXs == {2, 152, 153}

InitDirection ==
    \E n \in 4..MaxSamples : \E xs \in [1..n -> DirectionXs] :
        InitArgs([op |-> "init", tracker |-> TrackOf(xs)])

\* VehicleTracker.get_trajectory_direction(), lines 42-57
CallDirection ==
    /\ lastOp.op = "init"
    /\ lastOp' = [op |-> "get_trajectory_direction",
                  tracker |-> lastOp.tracker,
                  ret |-> get_trajectory_direction(lastOp.tracker)]
    /\ UNCHANGED <<trackers, next_track_id, counts, total_counts, now, created,
                   countLog, becameCounted, line_position>>

NextDirection == CallDirection /\ UNCHANGED <<threads, appVars>>

SpecDirection == InitDirection /\ [][NextDirection]_vars

---------------------------------------------------------------------------
(* The application with its statements interleaved. The video thread runs   *)
(* update on the frames of the scenario stream (one car moving right); the  *)
(* API thread runs get_counts and reset_counts. No lock is held, so a       *)
(* thread may be suspended between two statements: update between the two   *)
(* increments of lines 231 and 232, reset_counts between its assignments of *)
(* lines 97 and 101. threads[t] is "idle" or the statement thread t is      *)
(* about to execute. Only these switches between statements are explored    *)
(* (a statement and get_counts are taken as one step each).                  *)

\* VehicleCounter.update, lines 183-231: everything up to and including the
\* increment of counts[count_type][category]. The clock does not advance in
\* this stream, so no track is stale and lines 237-238 remove nothing.
UpdateThrough231(detections, frame_shape, max_tracks, max_pos) ==
    IF iou_matrix_raises(trackers, detections)
    THEN /\ lastOp' = [op |-> "update",
                       line_x |-> LineX(frame_shape),
                       width |-> frame_shape[2],
                       matched |-> {},
                       unmatched |-> 0,
                       evicted |-> {},
                       counts_before_removal |-> counts,
                       total_before_removal |-> total_counts,
                       ret |-> "ZeroDivisionError"]
         /\ UNCHANGED <<trackers, next_track_id, counts, total_counts, now, created,
                        countLog, becameCounted, line_position, threads>>
    ELSE
        \E line_x \in {LineX(frame_shape)} :
        \E m \in {match_detections_to_trackers(trackers, detections)} :
        \E e1 \in {update_matched(Engine, detections, m.matched)} :
        \E e2 \in {create_trackers(e1, detections, m.unmatched_detections)} :
        \E e3 \in {count_crossings(e2, Keys(e2.trackers), line_x)} :
            /\ next_track_id + Len(m.unmatched_detections) - 1 <= max_tracks
            /\ \A k \in DOMAIN m.matched :
                  Len(trackers[IndexOf(trackers, m.matched[k][2])].positions) < max_pos
            /\ e3.trackers_to_remove = <<>>
            /\ trackers' = e3.trackers
            /\ next_track_id' = e3.next_track_id
            /\ counts' = e3.counts
            /\ total_counts' = total_counts
            /\ countLog' = e3.countLog
            /\ becameCounted' = becameCounted \cup Risen(e2.trackers, e3.trackers)
            /\ created' = e3.created
            /\ lastOp' = [op |-> "update",
                          line_x |-> line_x,
                          width |-> frame_shape[2],
                          matched |-> {m.matched[k][2] : k \in DOMAIN m.matched},
                          unmatched |-> Len(m.unmatched_detections),
                          evicted |-> {},
                          counts_before_removal |-> e3.counts,
                          total_before_removal |-> total_counts,
                          ret |-> "None"]
            /\ threads' = [threads EXCEPT !["video_feed"] =
                              IF e3.total_counts["IN"] > total_counts["IN"]
                              THEN "update_232_IN"
                              ELSE IF e3.total_counts["OUT"] > total_counts["OUT"]
                                   THEN "update_232_OUT"
                                   ELSE "idle"]
            /\ UNCHANGED <<now, line_position>>

RaceUpdate(x) ==
    /\ threads["video_feed"] = "idle"
    /\ IF trackers = <<>> \/ Len(trackers[1].positions) < min_positions
       THEN x = 100
       ELSE x > LastX(trackers[1])
    /\ UpdateThrough231(<<ScenarioDetection(x)>>, ScenarioShape, 1, maxlen)

\* line 232: self.total_counts[count_type] += 1, and the rest of the call
RaceUpdate232 ==
    /\ threads["video_feed"] \in {"update_232_IN", "update_232_OUT"}
    /\ total_counts' =
          [total_counts EXCEPT ![IF threads["video_feed"] = "update_232_IN"
                                 THEN "IN" ELSE "OUT"] = @ + 1]
    /\ threads' = [threads EXCEPT !["video_feed"] = "idle"]
    /\ UNCHANGED <<trackers, next_track_id, counts, now, lastOp, created, countLog,
                   becameCounted, line_position>>

\* api_vehicle_counts: vehicle_counter.get_counts(), app.py line 433
RaceGetCounts ==
    /\ threads["api"] = "idle"
    /\ get_counts
    /\ UNCHANGED <<threads, appVars>>

\* api_reset_counts: reset_counts, lines 97-100: self.counts = {...}
RaceReset97 ==
    /\ threads["api"] = "idle"
    /\ counts' = [IN |-> EmptyDict, OUT |-> EmptyDict]
    /\ threads' = [threads EXCEPT !["api"] = "reset_counts_101"]
    /\ UNCHANGED <<trackers, next_track_id, total_counts, now, lastOp, created,
                   countLog, becameCounted, line_position>>

\* reset_counts, line 101: self.total_counts = {'IN': 0, 'OUT': 0}
RaceReset101 ==
    /\ threads["api"] = "reset_counts_101"
    /\ total_counts' = [IN |-> 0, OUT |-> 0]
    /\ becameCounted' = {}
    /\ lastOp' = [op |-> "reset_counts", ret |-> "None"]
    /\ threads' = [threads EXCEPT !["api"] = "idle"]
    /\ UNCHANGED <<trackers, next_track_id, counts, now, created, countLog,
                   line_position>>

NextRace ==
    \/ (\E x \in ScenarioXs : RaceUpdate(x)) /\ UNCHANGED appVars
    \/ RaceUpdate232 /\ UNCHANGED appVars
    \/ RaceGetCounts /\ UNCHANGED appVars
    \/ RaceReset97 /\ UNCHANGED appVars
    \/ RaceReset101 /\ UNCHANGED appVars

SpecRace == Init /\ [][NextRace]_vars

---------------------------------------------------------------------------
(* The line stream: one car in a box 600 wide is seen four times at x = 100 *)
(* and then moves right past the middle of the frame in steps of one pixel  *)
(* or more; the frame is 639, 640 or 641 pixels wide, so that width * 0.5   *)
(* is 319.5, 320 or 320.5                                                   *)

LineXs == {100, 318, 319, 320, 321, 322}
LineWidths == {639, 640, 641}
LineDetection(x) ==
    [bbox |-> <<x - 300, 100, x + 300, 200>>, display_category |-> "Car", confidence |-> 90]

LineUpdate(x, width) ==
    /\ IF trackers = <<>> \/ Len(trackers[1].positions) < 4
       THEN x = 100
       ELSE x > LastX(trackers[1])
    /\ UpdateWithin(<<LineDetection(x)>>, <<480, width>>, 1, maxlen)

NextLine == \E x \in LineXs, width \in LineWidths : LineUpdate(x, width) /\ UNCHANGED <<threads, appVars>>

SpecLine == Init /\ [][NextLine]_vars

---------------------------------------------------------------------------
(* The turning stream: one vehicle at a time in front of the camera, free  *)
(* to move right, to stand and to turn back, frames without a detection in *)
(* between, the clock advancing; the frame dimensions never change         *)

TurnShape == <<480, 640>>

UpdateTurn(detections) ==
    UpdateWithin(detections, TurnShape, MaxTracks, MaxTurnPos)

NextTurn ==
    \/ \E detections \in Frames : UpdateTurn(detections) /\ UNCHANGED <<threads, appVars>>
    \/ Tick /\ UNCHANGED <<threads, appVars>>

SpecTurn == Init /\ [][NextTurn]_vars

---------------------------------------------------------------------------
(* get_vehicle_counter, src/app.py lines 140-150, with its statements       *)
(* interleaved. Every request thread that needs the counter calls it:       *)
(* generate_frames once, before its loop (line 156), the API routes at      *)
(* every request (lines 430 and 452). Nothing is locked, so a thread may be *)
(* suspended between the test of line 143 and the assignment of line 145.   *)
(* threads[t] is "idle" or the line of get_vehicle_counter thread t is      *)
(* about to execute. Instances are numbered in the order of construction.   *)
(* The engine variables are the state of the instance the video thread      *)
(* holds, which it updates on the frames of the scenario stream.            *)

\* lines 156, 430, 452: vehicle_counter = get_vehicle_counter()
LazyCall(t) ==
    /\ threads[t] = "idle"
    /\ t = "video_feed" => vehicle_counter[t] = 0
    /\ threads' = [threads EXCEPT ![t] = "get_vehicle_counter_143"]
    /\ UNCHANGED <<trackers, next_track_id, counts, total_counts, now, lastOp, created,
                   countLog, becameCounted, line_position, appVars>>

\* line 143: if vehicle_counter_global is None
LazyTest(t) ==
    /\ threads[t] = "get_vehicle_counter_143"
    /\ threads' = [threads EXCEPT ![t] = IF vehicle_counter_global = 0
                                        THEN "get_vehicle_counter_145"
                                        ELSE "get_vehicle_counter_150"]
    /\ UNCHANGED <<trackers, next_track_id, counts, total_counts, now, lastOp, created,
                   countLog, becameCounted, line_position, appVars>>

\* lines 145-149: vehicle_counter_global = VehicleCounter(...)
LazyConstruct(t) ==
    /\ threads[t] = "get_vehicle_counter_145"
    /\ constructed' = constructed + 1
    /\ vehicle_counter_global' = constructed + 1
    /\ threads' = [threads EXCEPT ![t] = "get_vehicle_counter_150"]
    /\ UNCHANGED <<trackers, next_track_id, counts, total_counts, now, lastOp, created,
                   countLog, becameCounted, line_position, vehicle_counter>>

\* line 150: return vehicle_counter_global, which the caller keeps in its local
LazyReturn(t) ==
    /\ threads[t] = "get_vehicle_counter_150"
    /\ vehicle_counter' = [vehicle_counter EXCEPT ![t] = vehicle_counter_global]
    /\ threads' = [threads EXCEPT ![t] = "idle"]
    /\ UNCHANGED <<trackers, next_track_id, counts, total_counts, now, lastOp, created,
                   countLog, becameCounted, line_position, vehicle_counter_global,
                   constructed>>

\* generate_frames, lines 158-162: the loop calls update on the instance of line 156
LazyUpdate(x) ==
    /\ threads["video_feed"] = "idle"
    /\ vehicle_counter["video_feed"] # 0
    /\ ScenarioUpdate(x)
    /\ UNCHANGED <<threads, appVars>>

NextLazy ==
    \/ \E t \in Threads : LazyCall(t)
    \/ \E t \in Threads : LazyTest(t)
    \/ \E t \in Threads : LazyConstruct(t)
    \/ \E t \in Threads : LazyReturn(t)
    \/ \E x \in ScenarioXs : LazyUpdate(x)

SpecLazy == Init /\ [][NextLazy]_vars

---------------------------------------------------------------------------
(* Vocabulary of the properties, stated apart from the operators above *)

XsOf(tracker) == [i \in 1..Len(tracker.positions) |-> tracker.positions[i][1]]

\* the last two recorded positions straddle the line at x
CrossesAt(tracker, x) ==
    LET xs == XsOf(tracker)
        n == Len(xs)
    IN  /\ n >= 2
        /\ \/ xs[n - 1] < x /\ x <= xs[n]
           \/ xs[n - 1] > x /\ x >= xs[n]

\* five times (mean of the five entries of xs ending at k - mean of the first five)
FiveTimesDisplacement(xs, k) ==
    SumSeq([i \in 1..5 |-> xs[k - 5 + i]]) - SumSeq([i \in 1..5 |-> xs[i]])

\* fewer than 5 positions, or the two means differ by at most 30
Undetermined(tracker) ==
    LET xs == XsOf(tracker)
    IN  \/ Len(xs) < 5
        \/ /\ FiveTimesDisplacement(xs, Len(xs)) <= 150
           /\ FiveTimesDisplacement(xs, Len(xs)) >= -150

CountedBefore(id) == \E t \in Range(trackers) : t.track_id = id /\ t.counted

NewLogEntries == {countLog'[k] : k \in DOMAIN countLog' \ DOMAIN countLog}

---------------------------------------------------------------------------
(* C1: over any sequence of update, reset_counts and query calls a track's  *)
(* counted flag never goes back from true to false, no track is the cause   *)
(* of more than one execution of the counter increment in its lifetime, and *)
(* an increment is only ever made for a track whose flag was false.         *)
C1_CountedOnce ==
    [][ /\ \A t \in Range(trackers) : \A u \in Range(trackers') :
              (u.track_id = t.track_id /\ t.counted) => u.counted
        /\ \A i, j \in DOMAIN countLog' :
              countLog'[i].id = countLog'[j].id => i = j
        /\ \A r \in NewLogEntries : ~CountedBefore(r.id) ]_vars

\* a counted track went through an update after a reset with its last two
\* positions still across the line, and was not counted again
C1_Witness ==
    /\ lastOp.op = "update"
    /\ becameCounted = {}
    /\ Len(countLog) = 1
    /\ \E t \in Range(trackers) : t.counted /\ CrossesAt(t, lastOp.line_x)

(* C2: in every state, for each event IN and OUT, total_counts[event] is    *)
(* the sum over the categories of counts[event][category].                  *)
C2_Conservation ==
    \A ev \in Events : total_counts[ev] = SumFun(counts[ev], DOMAIN counts[ev])

C2_Witness ==
    /\ total_counts["IN"] = 1
    /\ total_counts["OUT"] = 1
    /\ \E c \in Categories : DictGet(counts["IN"], c) # DictGet(counts["OUT"], c)

(* C3: counts[event][category] is the number of tracks, live or evicted, of *)
(* that category whose counted flag rose with that event since construction *)
(* or the last reset_counts, and total_counts[event] is the number of       *)
(* tracks whose flag rose with that event.                                  *)
C3_CountsAreTracks ==
    \A ev \in Events :
        /\ total_counts[ev] = Cardinality({r \in becameCounted : r.event = ev})
        /\ \A c \in Categories :
              DictGet(counts[ev], c) =
                  Cardinality({r \in becameCounted : r.event = ev /\ r.category = c})

\* a counted track has been evicted and its count is still there
C3_Witness ==
    \E r \in becameCounted :
        /\ ~HasKey(trackers, r.id)
        /\ DictGet(counts[r.event], r.category) = 1

(* C4: a track removed by an update whose last two positions cross that     *)
(* update's line, with a determined direction, has been counted before it   *)
(* is removed.                                                              *)
C4_CountedBeforeEviction ==
    lastOp.op = "update" =>
        \A t \in lastOp.evicted :
            (CrossesAt(t, lastOp.line_x) /\ ~Undetermined(t)) => t.counted

\* the track with this id is live and its age exceeds max_age
StaleTrack(id) ==
    \E t \in Range(trackers) : t.track_id = id /\ now - t.last_seen > max_age

(* C5: an update removes every track it does not match whose age exceeds    *)
(* max_age (2 seconds), and it removes no track whose age is at most        *)
(* max_age; and while update keeps being called, a track whose age exceeds  *)
(* max_age is eventually removed unless it is matched again.                *)
C5_Eviction ==
    /\ [][ lastOp'.op = "update" =>
              \A t \in Range(trackers) :
                  /\ (now - t.last_seen > 2 /\ t.track_id \notin lastOp'.matched)
                        => (~HasKey(trackers', t.track_id) /\ t \in lastOp'.evicted)
                  /\ (now - t.last_seen <= 2) => HasKey(trackers', t.track_id) ]_vars
    /\ \A id \in 1..MaxTracks :
          StaleTrack(id) ~> (~HasKey(trackers, id) \/ ~StaleTrack(id))

\* an update has just removed a track, the first update after it went stale
C5_Witness ==
    /\ lastOp.op = "update"
    /\ lastOp.evicted # {}
    /\ \A t \in lastOp.evicted : now - t.last_seen = 3

(* C6: the removal of stale tracks at the end of an update changes no       *)
(* counter: every counts[event][category] and total_counts[event] is after  *)
(* the removal what it was before it, counted track or not.                 *)
C6_EvictionKeepsCounts ==
    (lastOp.op = "update" /\ lastOp.evicted # {}) =>
        /\ total_counts = lastOp.total_before_removal
        /\ \A ev \in Events : \A c \in Categories :
              DictGet(counts[ev], c) = DictGet(lastOp.counts_before_removal[ev], c)

\* a counted track has just been removed
C6_Witness ==
    /\ lastOp.op = "update"
    /\ \E t \in lastOp.evicted : t.counted /\ total_counts[t.direction] >= 1

(* C7: reset_counts leaves every per-category count and both totals at 0    *)
(* and the live tracks (flags, positions, bbox) and next_track_id as they   *)
(* were; and a total only ever grows in a step in which the counted flag of *)
(* a track rises, so a track counted before the reset is not counted again. *)
C7_Reset ==
    [][ /\ lastOp'.op = "reset_counts" =>
              /\ \A ev \in Events :
                    /\ total_counts'[ev] = 0
                    /\ \A c \in Categories : DictGet(counts'[ev], c) = 0
              /\ trackers' = trackers
              /\ next_track_id' = next_track_id
        /\ \A ev \in Events :
              total_counts'[ev] > total_counts[ev] =>
                  \E u \in Range(trackers') :
                      u.counted /\ u.direction = ev /\ ~CountedBefore(u.track_id) ]_vars

\* the counters have just been reset while a counted track is live
C7_Witness ==
    /\ lastOp.op = "reset_counts"
    /\ countLog # <<>>
    /\ \E t \in Range(trackers) : t.counted
    /\ \A ev \in Events : total_counts[ev] = 0

(* C8 as stated: in the scenario stream (frame 400 wide, line at x = 200,   *)
(* RIGHT mapped to IN) the track seen five times at x = 100 and then        *)
(* matched at positions moving right has, once it is at x = 260, been       *)
(* counted exactly once: counts['IN'][category] = 1, total IN = 1, no OUT   *)
(* counter changed, counted = true and direction = 'IN'.                    *)
C8_AlwaysCounted ==
    (trackers # <<>> /\ LastX(trackers[1]) = 260) =>
        /\ DictGet(counts["IN"], "Car") = 1
        /\ total_counts["IN"] = 1
        /\ DictGet(counts["OUT"], "Car") = 0
        /\ total_counts["OUT"] = 0
        /\ trackers[1].counted
        /\ trackers[1].direction = "IN"

\* the index of the position with which the history xs first reaches x
FirstAtOrBeyond(xs, x) == CHOOSE k \in 2..Len(xs) : xs[k - 1] < x /\ x <= xs[k]

(* C8 amended: that track is counted at most once, and it is counted (with  *)
(* the counters and flags as above) exactly when, in the update whose new   *)
(* position first reaches x >= 200, the mean x of the latest 5 positions    *)
(* exceeds the mean x of the earliest 5 by more than 30; otherwise no       *)
(* counter changes, counted stays false and direction stays null.           *)
C8_CountedIffDetermined ==
    (trackers # <<>> /\ LastX(trackers[1]) = 260) =>
        LET t == trackers[1]
            xs == XsOf(t)
            k == FirstAtOrBeyond(xs, 200)
        IN  /\ Len(trackers) = 1
            /\ Len(countLog) <= 1
            /\ DictGet(counts["OUT"], "Car") = 0
            /\ total_counts["OUT"] = 0
            /\ IF FiveTimesDisplacement(xs, k) > 150
               THEN /\ t.counted
                    /\ t.direction = "IN"
                    /\ DictGet(counts["IN"], "Car") = 1
                    /\ total_counts["IN"] = 1
               ELSE /\ ~t.counted
                    /\ t.direction = "None"
                    /\ DictGet(counts["IN"], "Car") = 0
                    /\ total_counts["IN"] = 0

\* the track has arrived at x = 260 and has been counted IN
C8_Witness ==
    /\ trackers # <<>>
    /\ LastX(trackers[1]) = 260
    /\ trackers[1].counted
    /\ trackers[1].direction = "IN"
    /\ total_counts["IN"] = 1

C10_SequentialIds ==
    [][ /\ \A k \in DOMAIN created' : created'[k] = k
        /\ next_track_id' = Len(created') + 1
        /\ lastOp'.op = "update" =>
              /\ Len(created') = Len(created) + lastOp'.unmatched
              /\ \A k \in DOMAIN created' \ DOMAIN created : HasKey(trackers', created'[k])
        /\ \A i, j \in DOMAIN trackers' :
              i < j => trackers'[i].track_id < trackers'[j].track_id
        /\ \A u \in Range(trackers') :
              HasKey(trackers, u.track_id) \/ u.track_id \in Range(created') \ Range(created)
      ]_vars

\* ids 1 and 2 were given out, their tracks evicted, and the track created
\* afterwards has id 3
C10_Witness ==
    /\ lastOp.op = "update"
    /\ lastOp.unmatched = 1
    /\ created = <<1, 2, 3>>
    /\ Keys(trackers) = <<3>>

(* C11: every live track has between 1 and 30 positions; an update appends  *)
(* exactly one point, the centre of the new bbox, to the history of each    *)
(* track it matches (and none to the others), and when the history already  *)
(* held 30 points the oldest is dropped and the others keep their order.    *)
C11_BoundedHistory ==
    [][ /\ \A u \in Range(trackers') :
              Len(u.positions) >= 1 /\ Len(u.positions) <= 30
        /\ lastOp'.op = "update" =>
              \A t \in Range(trackers) : \A u \in Range(trackers') :
                  u.track_id = t.track_id =>
                      LET p == t.positions
                          q == u.positions
                          c == q[Len(q)]
                      IN  IF t.track_id \in lastOp'.matched
                          THEN /\ 2 * c[1] <= u.bbox[1] + u.bbox[3]
                               /\ u.bbox[1] + u.bbox[3] < 2 * c[1] + 2
                               /\ 2 * c[2] <= u.bbox[2] + u.bbox[4]
                               /\ u.bbox[2] + u.bbox[4] < 2 * c[2] + 2
                               /\ IF Len(p) < 30
                                  THEN /\ Len(q) = Len(p) + 1
                                       /\ \A i \in 1..Len(p) : q[i] = p[i]
                                  ELSE /\ Len(q) = 30
                                       /\ \A i \in 1..29 : q[i] = p[i + 1]
                          ELSE q = p ]_vars

\* the history is full and the point the track was created at has been dropped
C11_Witness ==
    /\ lastOp.op = "update"
    /\ \E t \in Range(trackers) :
          /\ t.track_id \in lastOp.matched
          /\ Len(t.positions) = 30
          /\ t.positions[1][1] > 100

(* C12: what match_detections_to_trackers returns for n detections assigns  *)
(* no track id to two detections and no detection to two tracks, assigns    *)
(* only ids of live tracks, and the matched detection indices and the       *)
(* unmatched list are disjoint, without repetition, and together all the    *)
(* indices of the detections (1..n here, 0..n-1 in the code).               *)
C12_OneToOne ==
    lastOp.op = "match_detections_to_trackers" =>
        /\ lastOp.raised = "None"
        /\ LET matched == lastOp.ret.matched
               unmatched == lastOp.ret.unmatched_detections
               dets == {matched[k][1] : k \in DOMAIN matched}
           IN  /\ \A i, j \in DOMAIN matched :
                     i # j => (matched[i][1] # matched[j][1] /\ matched[i][2] # matched[j][2])
               /\ \A k \in DOMAIN matched : HasKey(trackers, matched[k][2])
               /\ \A i, j \in DOMAIN unmatched : i # j => unmatched[i] # unmatched[j]
               /\ dets \cap Range(unmatched) = {}
               /\ dets \cup Range(unmatched) = 1..lastOp.n

\* two detections, two live tracks with the same box: one detection is
\* matched, to the other track than the one named here, and one is left over
C12_Witness ==
    /\ lastOp.op = "match_detections_to_trackers"
    /\ lastOp.n = 2
    /\ Len(trackers) = 2
    /\ Len(lastOp.ret.matched) = 1
    /\ Len(lastOp.ret.unmatched_detections) = 1
    /\ \E t \in Range(trackers) :
          t.track_id # lastOp.ret.matched[1][2] /\ t.bbox = trackers[1].bbox

(* C13: an update with no detection on an engine with no live track leaves  *)
(* counts, total_counts, the empty track set and next_track_id as they      *)
(* were, so that any number of such calls changes none of them.             *)
C13_EmptyUpdateIsNoOp ==
    [][ (/\ trackers = <<>>
         /\ lastOp'.op = "update"
         /\ lastOp'.unmatched = 0)
        => /\ counts' = counts
           /\ total_counts' = total_counts
           /\ trackers' = <<>>
           /\ next_track_id' = next_track_id ]_vars

\* update([], dims) has just returned on an engine without tracks that has
\* counted a vehicle and has given out an id
C13_Witness ==
    /\ lastOp.op = "update"
    /\ lastOp.unmatched = 0
    /\ lastOp.evicted = {}
    /\ trackers = <<>>
    /\ next_track_id > 1
    /\ \E ev \in Events : total_counts[ev] >= 1

(* C14: no step changes the category of a live track; and whatever frame an *)
(* update is called with, each track the frame's detections are matched to  *)
(* has afterwards the bbox and the confidence of its detection, the         *)
(* category it had before, also when the detection reports another one,     *)
(* and last_seen equal to the time of the call.                             *)
C14_CategoryFixed ==
    [][ /\ \A t \in Range(trackers) : \A u \in Range(trackers') :
              u.track_id = t.track_id => u.category = t.category
        /\ \A detections \in RelabelFrames :
              UpdateRelabel(detections) =>
                  LET matched == match_detections_to_trackers(trackers, detections).matched
                  IN  \A k \in DOMAIN matched :
                          LET detection == detections[matched[k][1]]
                              t == trackers[IndexOf(trackers, matched[k][2])]
                          IN  \E u \in Range(trackers') :
                                  /\ u.track_id = t.track_id
                                  /\ u.category = t.category
                                  /\ u.bbox = detection.bbox
                                  /\ u.confidence = detection.confidence
                                  /\ u.last_seen = now ]_vars

\* a track created as a car has just been matched, later than it was created
\* and in another box, by a detection that reports a bus
C14_Witness ==
    /\ lastOp.op = "update"
    /\ \E t \in Range(trackers) :
          /\ t.track_id \in lastOp.matched
          /\ t.category = "Car"
          /\ t.confidence = 80
          /\ t.last_seen = now
          /\ now > 0
          /\ get_center(t.bbox) # t.positions[1]

(* C15: get_counts returns the per-category IN and OUT counts and the two   *)
(* totals as they are at the call, and net_count = total_in - total_out;    *)
(* the call changes nothing of the engine. The returned dicts are values of *)
(* their own (dict(...) copies), so that no later call reaches them.        *)
C15_GetCounts ==
    [][ lastOp'.op = "get_counts" =>
            /\ DOMAIN lastOp'.ret.in_counts = DOMAIN counts["IN"]
            /\ DOMAIN lastOp'.ret.out_counts = DOMAIN counts["OUT"]
            /\ \A c \in Categories :
                  /\ DictGet(lastOp'.ret.in_counts, c) = DictGet(counts["IN"], c)
                  /\ DictGet(lastOp'.ret.out_counts, c) = DictGet(counts["OUT"], c)
            /\ lastOp'.ret.total_in = total_counts["IN"]
            /\ lastOp'.ret.total_out = total_counts["OUT"]
            /\ lastOp'.ret.net_count = total_counts["IN"] - total_counts["OUT"]
            /\ UNCHANGED <<trackers, next_track_id, counts, total_counts,
                           line_position>> ]_vars

\* get_counts has just returned a negative net_count and the counts of two
\* categories
C15_Witness ==
    /\ lastOp.op = "get_counts"
    /\ lastOp.ret.net_count = -1
    /\ lastOp.ret.total_out = 3
    /\ DOMAIN lastOp.ret.in_counts = {"Car", "Bus"}

\* p / q = r for a quotient <<p, q>> and an integer r
QuotientIs(pq, r) == pq[1] = r * pq[2]

(* C16: get_parking_availability(capacity), capacity >= 0, returns          *)
(* currently_parked = counts[IN][Car] - counts[OUT][Car], available =       *)
(* max(0, capacity - currently_parked) and occupancy_percent =              *)
(* currently_parked / capacity * 100, or 0 when capacity is 0; for capacity *)
(* 100, 12 cars IN and 3 cars OUT, available is 91 and occupancy_percent 9. *)
C16_Availability ==
    lastOp.op = "get_parking_availability" =>
        LET r == lastOp.ret
            parked == DictGet(counts["IN"], "Car") - DictGet(counts["OUT"], "Car")
        IN  /\ r.currently_parked = parked
            /\ r.available = IF r.total_capacity - parked > 0
                             THEN r.total_capacity - parked ELSE 0
            /\ IF r.total_capacity > 0
               THEN r.occupancy_percent[1] * r.total_capacity
                        = parked * 100 * r.occupancy_percent[2]
               ELSE QuotientIs(r.occupancy_percent, 0)
            /\ (r.total_capacity = 100 /\ r.cars_in = 12 /\ r.cars_out = 3)
                  => (r.available = 91 /\ QuotientIs(r.occupancy_percent, 9))

\* the call with capacity 100, 12 cars IN and 3 cars OUT has just returned
C16_Witness ==
    /\ lastOp.op = "get_parking_availability"
    /\ lastOp.ret.total_capacity = 100
    /\ DictGet(counts["IN"], "Car") = 12
    /\ DictGet(counts["OUT"], "Car") = 3
    /\ lastOp.ret.available = 91

\* the pair lp is a fraction outside the open interval (0, 1)
OutsideUnitInterval(lp) == lp[1] <= 0 \/ lp[1] >= lp[2]

(* C17: an engine whose line_position is outside the open interval (0, 1)   *)
(* is rejected when it is constructed: update is never called on it.        *)
C17_RejectedAtConstruction ==
    OutsideUnitInterval(line_position) => lastOp.op # "update"

(* C18: with the default configuration every update, whatever the frame     *)
(* (no detection, no live track, boxes of zero area or with swapped         *)
(* corners, a detection that overlaps no track), ends without an exception  *)
(* and in a state in which each total is the sum of its per-category        *)
(* counts.                                                                  *)
C18_UpdateNeverFails ==
    lastOp.op = "update" =>
        /\ lastOp.ret = "None"
        /\ \A ev \in Events :
              total_counts[ev] = SumFun(counts[ev], DOMAIN counts[ev])

\* an update has just created a track for a detection that overlaps no
\* track, while a track with a zero-area box and one with swapped corners
\* are live
C18_Witness ==
    /\ lastOp.op = "update"
    /\ lastOp.ret = "None"
    /\ lastOp.unmatched = 1
    /\ \E t, u \in Range(trackers) :
          /\ t.bbox[1] = t.bbox[3] /\ t.bbox[2] = t.bbox[4]
          /\ u.bbox[1] > u.bbox[3]

(* C19: in the application the calls of update, get_counts,                 *)
(* get_parking_availability and reset_counts on the shared counter are      *)
(* serialized: at no time are two request threads each executing one of     *)
(* them.                                                                    *)
C19_Serialized ==
    Cardinality({t \in Threads : threads[t] \in CounterOps}) <= 1

(* C20: a track's direction is null exactly while its counted flag is       *)
(* false and is 'IN' or 'OUT' exactly while it is true, for live tracks and *)
(* for tracks at their removal; the direction is set in the step in which   *)
(* the flag rises and no later step changes it.                             *)
C20_DirectionWithCounted ==
    [][ /\ \A u \in Range(trackers') \cup
                    (IF lastOp'.op = "update" THEN lastOp'.evicted ELSE {}) :
              /\ u.counted <=> u.direction \in Events
              /\ ~u.counted <=> u.direction = "None"
        /\ \A t \in Range(trackers) : \A u \in Range(trackers') :
              u.track_id = t.track_id =>
                  /\ t.counted => u.direction = t.direction
                  /\ (~t.counted /\ u.counted) =>
                        (t.direction = "None" /\ u.direction \in Events) ]_vars

\* a track counted OUT before the last reset has gone through a later update
\* (no flag has risen since the reset) and still has direction OUT
C20_Witness ==
    /\ lastOp.op = "update"
    /\ becameCounted = {}
    /\ \E t \in Range(trackers) :
          /\ t.counted
          /\ t.direction = "OUT"
          /\ \E k \in DOMAIN countLog :
                countLog[k].id = t.track_id /\ countLog[k].event = "OUT"

\* x1 <= x2 and y1 <= y2
WellFormed(box) == box[1] <= box[3] /\ box[2] <= box[4]

(* C21: for every box with x1 <= x2 and y1 <= y2, zero-area boxes included, *)
(* calculate_iou(box, box) is 1.                                            *)
C21_SelfIouIsOne ==
    (lastOp.op = "calculate_iou" /\ lastOp.box1 = lastOp.box2 /\ WellFormed(lastOp.box1))
        => (lastOp.ret # ZeroDivisionError /\ QuotientIs(lastOp.ret, 1))

\* the interiors of the two boxes have a point in common
Overlap(a, b) == a[1] < b[3] /\ b[1] < a[3] /\ a[2] < b[4] /\ b[2] < a[4]

\* (x2 - x1) * (y2 - y1)
AreaOf(box) == (box[3] - box[1]) * (box[4] - box[2])

\* area of the intersection rectangle, 0 when there is none
InterAreaOf(a, b) ==
    LET w == Min2(a[3], b[3]) - Max2(a[1], b[1])
        h == Min2(a[4], b[4]) - Max2(a[2], b[2])
    IN  IF w > 0 /\ h > 0 THEN w * h ELSE 0

(* C22: for all boxes a and b of the grid, calculate_iou(a, b) and          *)
(* calculate_iou(b, a) are the same number, the number is at least 0 and at *)
(* most 1, it is 0 when the boxes do not overlap, and it is 0, with no      *)
(* division by zero, when the union area is 0.                              *)
C22_IouSymmetricBounded ==
    lastOp.op = "calculate_iou" =>
        /\ lastOp.ret # ZeroDivisionError
        /\ lastOp.ret_swapped # ZeroDivisionError
        /\ lastOp.ret[1] * lastOp.ret_swapped[2] = lastOp.ret_swapped[1] * lastOp.ret[2]
        /\ lastOp.ret[2] > 0
        /\ 0 <= lastOp.ret[1]
        /\ lastOp.ret[1] <= lastOp.ret[2]
        /\ ~Overlap(lastOp.box1, lastOp.box2) => QuotientIs(lastOp.ret, 0)
        /\ (AreaOf(lastOp.box1) + AreaOf(lastOp.box2)
               - InterAreaOf(lastOp.box1, lastOp.box2) = 0) => QuotientIs(lastOp.ret, 0)

\* two different boxes that overlap in part: the IoU is strictly between 0
\* and 1, here 1/2
C22_Witness ==
    /\ lastOp.op = "calculate_iou"
    /\ lastOp.box1 # lastOp.box2
    /\ Overlap(lastOp.box1, lastOp.box2)
    /\ lastOp.ret[1] > 0
    /\ 2 * lastOp.ret[1] = lastOp.ret[2]
    /\ lastOp.ret = lastOp.ret_swapped

\* the track ids given to the detections before detection d
ClaimedBefore(matched, d) == {matched[k][2] : k \in {j \in DOMAIN matched : matched[j][1] < d}}

\* the IoU of detection d of the call with the live track t exceeds 0.3
OverThreshold(d, t) ==
    LET iou == calculate_iou(lastOp.detections[d].bbox, t.bbox)
    IN  10 * iou[1] > 3 * iou[2]

(* C23: match_detections_to_trackers takes the detections in input order    *)
(* and gives each one the track with the highest IoU among the tracks no    *)
(* earlier detection of the pass has been given, if that IoU is strictly    *)
(* above 0.3; a detection is unmatched exactly when no such track has an    *)
(* IoU above 0.3 with it (exactly 0.3 does not match). Without live tracks  *)
(* every detection is unmatched; without detections the match set and the   *)
(* unmatched list are empty.                                                *)
C23_GreedyBestMatch ==
    lastOp.op = "match_detections_to_trackers" =>
        LET matched == lastOp.ret.matched
            unmatched == lastOp.ret.unmatched_detections
            free(d) == {t \in Range(trackers) : t.track_id \notin ClaimedBefore(matched, d)}
        IN  /\ lastOp.raised = "None"
            /\ \A i, j \in DOMAIN matched : i < j => matched[i][1] < matched[j][1]
            /\ \A i, j \in DOMAIN unmatched : i < j => unmatched[i] < unmatched[j]
            /\ \A k \in DOMAIN matched :
                  \E t \in free(matched[k][1]) :
                      /\ t.track_id = matched[k][2]
                      /\ OverThreshold(matched[k][1], t)
                      /\ \A u \in free(matched[k][1]) :
                            ~IouGreater(
                                calculate_iou(lastOp.detections[matched[k][1]].bbox, u.bbox),
                                calculate_iou(lastOp.detections[matched[k][1]].bbox, t.bbox))
            /\ \A d \in 1..lastOp.n :
                  (d \in Range(unmatched)) <=> (\A t \in free(d) : ~OverThreshold(d, t))
            /\ \A d \in 1..lastOp.n :
                  (d \in Range(unmatched)) <=> (\A k \in DOMAIN matched : matched[k][1] # d)
            /\ trackers = <<>> => unmatched = [i \in 1..lastOp.n |-> i]
            /\ lastOp.n = 0 => (matched = <<>> /\ unmatched = <<>>)

\* two detections on an engine with live tracks: the first has an IoU of
\* exactly 3/10 with a free track and above 3/10 with none, and is left
\* unmatched; the second is matched
C23_Witness ==
    /\ lastOp.op = "match_detections_to_trackers"
    /\ lastOp.n = 2
    /\ lastOp.ret.unmatched_detections = <<1>>
    /\ Len(lastOp.ret.matched) = 1
    /\ \E t \in Range(trackers) :
          LET iou == calculate_iou(lastOp.detections[1].bbox, t.bbox)
          IN  10 * iou[1] = 3 * iou[2]

(* C24: check_line_crossing returns true exactly when the track has at      *)
(* least 2 recorded positions and the x of the second-to-last (prevX) and   *)
(* of the last (currX) satisfy prevX < lineX <= currX or prevX > lineX >=   *)
(* currX; for a track with a single position it returns false.              *)
C24_CrossingCondition ==
    lastOp.op = "check_line_crossing" =>
        /\ lastOp.ret <=> CrossesAt(lastOp.tracker, lastOp.line_x)
        /\ Len(lastOp.tracker.positions) = 1 => ~lastOp.ret

\* the call returned true for a track of three positions whose first two
\* are on the same side of the line, the last one exactly on it
C24_Witness ==
    /\ lastOp.op = "check_line_crossing"
    /\ lastOp.ret
    /\ Len(lastOp.tracker.positions) = 3
    /\ lastOp.tracker.positions[1][1] > lastOp.line_x
    /\ lastOp.tracker.positions[2][1] > lastOp.line_x
    /\ lastOp.tracker.positions[3][1] = lastOp.line_x

(* C25: get_trajectory_direction returns undetermined (None) for a track    *)
(* with fewer than 5 positions; otherwise, with d the mean x of the latest  *)
(* 5 retained positions minus the mean x of the earliest 5, it returns      *)
(* RIGHT when d > 30, LEFT when d < -30 and undetermined when |d| <= 30.    *)
C25_DirectionRule ==
    lastOp.op = "get_trajectory_direction" =>
        LET xs == XsOf(lastOp.tracker)
            n == Len(xs)
        IN  IF n < 5 THEN lastOp.ret = "None"
            ELSE /\ FiveTimesDisplacement(xs, n) > 150 => lastOp.ret = "RIGHT"
                 /\ FiveTimesDisplacement(xs, n) < -150 => lastOp.ret = "LEFT"
                 /\ (FiveTimesDisplacement(xs, n) <= 150
                        /\ FiveTimesDisplacement(xs, n) >= -150) => lastOp.ret = "None"

\* the tracks whose counted flag rises in the step
RisenInStep == {u \in Range(trackers') : u.counted /\ ~CountedBefore(u.track_id)}

\* the event of the default mapping for the way the track has moved: IN when
\* the mean x of its latest five positions is right of that of its earliest
\* five (RIGHT), OUT when it is left of it (LEFT)
EventOfMovement(tracker) ==
    IF FiveTimesDisplacement(XsOf(tracker), Len(tracker.positions)) > 0 THEN "IN" ELSE "OUT"

(* C26: in an update, for every event and category, counts[event][category] *)
(* grows by the number of tracks of that category whose crossing is         *)
(* resolved in the update with a direction mapped to that event (by 1 for   *)
(* one such track), total_counts[event] grows by the number of tracks       *)
(* resolved with that event, and no other counter changes; a track that     *)
(* moved LEFT gives OUT, one that moved RIGHT gives IN.                      *)
C26_CountIncrement ==
    [][ lastOp'.op = "update" =>
          \A risen \in {RisenInStep} :
              /\ \A u \in risen :
                    /\ Len(u.positions) >= 5
                    /\ CrossesAt(u, lastOp'.line_x)
                    /\ u.direction = EventOfMovement(u)
              /\ \A ev \in Events :
                    /\ total_counts'[ev] = total_counts[ev]
                          + Cardinality({u \in risen : EventOfMovement(u) = ev})
                    /\ \A c \in Categories :
                          DictGet(counts'[ev], c) = DictGet(counts[ev], c)
                              + Cardinality({u \in risen :
                                                EventOfMovement(u) = ev /\ u.category = c}) ]_vars

\* an update has just counted a bus that moved left as OUT, on an engine
\* that had counted one vehicle IN: counts[OUT][Bus] and total OUT are 1,
\* the IN counters are as they were
C26_Witness ==
    /\ lastOp.op = "update"
    /\ total_counts = [IN |-> 1, OUT |-> 1]
    /\ DictGet(counts["OUT"], "Bus") = 1
    /\ \E t \in Range(trackers) :
          /\ t.track_id \in lastOp.matched
          /\ t.counted
          /\ t.category = "Bus"
          /\ CrossesAt(t, lastOp.line_x)
          /\ LastX(t) < t.positions[1][1]

\* the ids given to the tracks the last update created
CreatedByLastUpdate ==
    {created[k] : k \in {j \in DOMAIN created : j > Len(created) - lastOp.unmatched}}

(* C28: when an update has returned (the clock not having moved during the  *)
(* call) every live track has now - last_seen <= max_age, and every track   *)
(* that the update matched or created is live.                              *)
C28_NoStaleAfterUpdate ==
    lastOp.op = "update" =>
        /\ \A t \in Range(trackers) : now - t.last_seen <= max_age
        /\ \A id \in lastOp.matched \cup CreatedByLastUpdate :
              /\ HasKey(trackers, id)
              /\ trackers[IndexOf(trackers, id)].last_seen = now

\* an update has just removed a stale track and created a track, which is
\* the only live one
C28_Witness ==
    /\ lastOp.op = "update"
    /\ lastOp.evicted # {}
    /\ lastOp.unmatched = 1
    /\ Len(trackers) = 1
    /\ trackers[1].track_id = created[Len(created)]

(* C27: with update, reset_counts and get_counts of the request threads     *)
(* interleaved in any way, what a get_counts call returns satisfies count   *)
(* conservation: total_in is the sum of in_counts over the categories and   *)
(* total_out the sum of out_counts.                                         *)
C27_ObservedConservation ==
    lastOp.op = "get_counts" =>
        /\ lastOp.ret.total_in
              = SumFun(lastOp.ret.in_counts, DOMAIN lastOp.ret.in_counts)
        /\ lastOp.ret.total_out
              = SumFun(lastOp.ret.out_counts, DOMAIN lastOp.ret.out_counts)

(* C29: a track that is not counted and whose direction is undetermined     *)
(* (as it is after an update in which its last two positions crossed the    *)
(* line without a count) is not counted by a later step that leaves its     *)
(* positions as they are; its flag rises only in an update that matched it, *)
(* appended a new position, and in which the new last two positions cross   *)
(* the line with a determined direction.                                    *)
C29_NoRetry ==
    [][ \A t \in Range(trackers) : \A u \in Range(trackers') :
          (u.track_id = t.track_id /\ ~t.counted /\ Undetermined(t) /\ u.counted)
              => /\ lastOp'.op = "update"
                 /\ u.track_id \in lastOp'.matched
                 /\ Len(u.positions) = Len(t.positions) + 1
                 /\ SubSeq(u.positions, 1, Len(t.positions)) = t.positions
                 /\ CrossesAt(u, lastOp'.line_x)
                 /\ ~Undetermined(u) ]_vars

\* a track of five positions whose last two are across the line and whose
\* direction is undetermined went through an update that did not match it:
\* the crossing is still there and the track has not been counted
C29_Witness ==
    /\ lastOp.op = "update"
    /\ \E t \in Range(trackers) :
          /\ t.track_id \notin lastOp.matched
          /\ Len(t.positions) = 5
          /\ CrossesAt(t, lastOp.line_x)
          /\ Undetermined(t)
          /\ ~t.counted
          /\ t.direction = "None"
    /\ countLog = <<>>

\* the last two recorded positions straddle the line at x = p / q, q > 0:
\* prevX < p/q <= currX or prevX > p/q >= currX
CrossesAtQuotient(tracker, p, q) ==
    LET xs == XsOf(tracker)
        n == Len(xs)
    IN  /\ n >= 2
        /\ \/ xs[n - 1] * q < p /\ p <= xs[n] * q
           \/ xs[n - 1] * q > p /\ p >= xs[n] * q

(* C30: update decides the crossing for the line at lineX = frameWidth *    *)
(* linePosition, not rounded: a track that the update has matched, that was *)
(* not counted before and whose direction is determined is counted in the   *)
(* update exactly when its last two positions satisfy the crossing          *)
(* condition for that lineX.                                                *)
C30_ExactLine ==
    [][ lastOp'.op = "update" =>
          \A t \in Range(trackers) : \A u \in Range(trackers') :
              (/\ u.track_id = t.track_id
               /\ u.track_id \in lastOp'.matched
               /\ ~t.counted
               /\ ~Undetermined(u))
                  => (u.counted <=>
                         CrossesAtQuotient(u, lastOp'.width * line_position[1],
                                           line_position[2])) ]_vars

(* C31: whenever update counts a track, the counted event agrees with the   *)
(* crossing step of that update: a track counted IN (trajectory direction   *)
(* RIGHT under the default mapping) has prevX < lineX <= currX, and a track *)
(* counted OUT (LEFT) has prevX > lineX >= currX, prevX and currX being its *)
(* last two recorded x.                                                     *)
C31_EventAgreesWithStep ==
    [][ lastOp'.op = "update" =>
          \A u \in RisenInStep :
              \E n \in {Len(u.positions)} : \E xs \in {XsOf(u)} :
                  /\ n >= 2
                  /\ u.direction = "IN" => (xs[n - 1] < lastOp'.line_x /\ lastOp'.line_x <= xs[n])
                  /\ u.direction = "OUT" => (xs[n - 1] > lastOp'.line_x /\ lastOp'.line_x >= xs[n]) ]_vars

(* C32: no track is counted before it has 5 recorded positions: a track is  *)
(* not counted in the update that creates it nor in any of its first three  *)
(* matched updates (it enters the counting update with at least 4 positions *)
(* already recorded), and every counted track has at least 5 positions.     *)
C32_FivePositions ==
    [][ lastOp'.op = "update" =>
          /\ \A u \in RisenInStep :
                /\ Len(u.positions) >= min_positions
                /\ u.track_id \in lastOp'.matched
                /\ \E t \in Range(trackers) :
                      /\ t.track_id = u.track_id
                      /\ Len(t.positions) >= min_positions - 1
          /\ \A u \in Range(trackers') :
                Len(u.positions) < min_positions => (~u.counted /\ u.direction = "None") ]_vars

\* a track that crossed the line with its second position, and so was not
\* counted then, has come back and crossed again with its sixth position:
\* this time the update counted it
C32_Witness ==
    /\ lastOp.op = "update"
    /\ \E t \in Range(trackers) :
          /\ t.track_id \in lastOp.matched
          /\ Len(t.positions) = 6
          /\ t.positions[1][1] < lastOp.line_x
          /\ t.positions[2][1] >= lastOp.line_x
          /\ CrossesAt(t, lastOp.line_x)
          /\ t.counted
          /\ countLog = <<[id |-> t.track_id, event |-> t.direction, category |-> t.category]>>

(* C33: a live track that an update does not match to any detection has,    *)
(* after the update, the bbox, confidence, category, position history and   *)
(* last_seen it had before it (whether it stays live or the update evicts   *)
(* it as stale).                                                            *)
C33_UnmatchedUntouched ==
    [][ lastOp'.op = "update" =>
          \A t \in Range(trackers) :
              t.track_id \notin lastOp'.matched =>
                  /\ \E u \in Range(trackers') \cup lastOp'.evicted : u.track_id = t.track_id
                  /\ \A u \in Range(trackers') \cup lastOp'.evicted :
                        u.track_id = t.track_id =>
                            /\ u.bbox = t.bbox
                            /\ u.confidence = t.confidence
                            /\ u.category = t.category
                            /\ u.positions = t.positions
                            /\ u.last_seen = t.last_seen ]_vars

\* an update later than the creation of two tracks has matched one of them
\* and not the other: the other is still live, as it was created
C33_Witness ==
    /\ lastOp.op = "update"
    /\ Cardinality(lastOp.matched) = 1
    /\ lastOp.evicted = {}
    /\ \E t \in Range(trackers) :
          /\ t.track_id \notin lastOp.matched
          /\ t.track_id \notin CreatedByLastUpdate
          /\ t.last_seen < now
          /\ t.positions = <<get_center(t.bbox)>>

\* the IoU of detection d of the call with the live track t
IouOf(d, t) == calculate_iou(lastOp.detections[d].bbox, t.bbox)

\* among the tracks of free, t alone has the highest IoU with detection d
OnlyBest(d, t, free) == \A u \in free : u.track_id # t.track_id => IouGreater(IouOf(d, t), IouOf(d, u))

(* C34: when two detections of a frame have the same IoU, above 0.3, with   *)
(* one track that no earlier detection has been given and that is the best  *)
(* candidate of both, the one that comes first in the input is matched to   *)
(* the track and the later one is matched to another track or is unmatched. *)
(* The result is determined by the ordered detection list and the live      *)
(* tracks: each matched detection has the first, in the order of the track  *)
(* dict, of the free tracks of highest IoU.                                 *)
C34_FirstDetectionWins ==
    lastOp.op = "match_detections_to_trackers" =>
        LET matched == lastOp.ret.matched
            unmatched == lastOp.ret.unmatched_detections
            free(d) == {t \in Range(trackers) : t.track_id \notin ClaimedBefore(matched, d)}
        IN  /\ lastOp.raised = "None"
            /\ \A d1, d2 \in 1..lastOp.n : \A t \in Range(trackers) :
                  (/\ d1 < d2
                   /\ t \in free(d1)
                   /\ OverThreshold(d1, t)
                   /\ ~IouGreater(IouOf(d1, t), IouOf(d2, t))
                   /\ ~IouGreater(IouOf(d2, t), IouOf(d1, t))
                   /\ OnlyBest(d1, t, free(d1))
                   /\ OnlyBest(d2, t, free(d1)))
                      => /\ \E k \in DOMAIN matched : matched[k] = <<d1, t.track_id>>
                         /\ \/ d2 \in Range(unmatched)
                            \/ \E k \in DOMAIN matched :
                                  matched[k][1] = d2 /\ matched[k][2] # t.track_id
            /\ \A k \in DOMAIN matched : \A t \in free(matched[k][1]) :
                  t.track_id = matched[k][2] =>
                      \A u \in free(matched[k][1]) :
                          /\ IndexOf(trackers, u.track_id) < IndexOf(trackers, t.track_id)
                                => IouGreater(IouOf(matched[k][1], t), IouOf(matched[k][1], u))
                          /\ IndexOf(trackers, u.track_id) > IndexOf(trackers, t.track_id)
                                => ~IouGreater(IouOf(matched[k][1], u), IouOf(matched[k][1], t))

\* two detections with the same box, which overlaps the box of the one live
\* track without being equal to it: the first detection has the track, the
\* second is left unmatched
C34_Witness ==
    /\ lastOp.op = "match_detections_to_trackers"
    /\ lastOp.n = 2
    /\ Len(trackers) = 1
    /\ lastOp.detections[1].bbox = lastOp.detections[2].bbox
    /\ lastOp.detections[1].bbox # trackers[1].bbox
    /\ lastOp.ret.matched = <<<<1, trackers[1].track_id>>>>
    /\ lastOp.ret.unmatched_detections = <<2>>

(* C35: in every reachable state of the counter (after reset_counts, with   *)
(* more Car OUT counts than Car IN counts) and for every capacity >= 0,     *)
(* get_parking_availability returns currently_parked >= 0, 0 <= available   *)
(* <= total_capacity and 0 <= occupancy_percent <= 100.                     *)
C35_AvailabilityInRange ==
    lastOp.op = "get_parking_availability" =>
        \E r \in {lastOp.ret} :
            /\ r.total_capacity >= 0
            /\ r.currently_parked >= 0
            /\ 0 <= r.available
            /\ r.available <= r.total_capacity
            /\ 0 <= r.occupancy_percent[1]
            /\ r.occupancy_percent[1] <= 100 * r.occupancy_percent[2]

(* C36: with constant frame dimensions and direction mapping, a track       *)
(* becomes counted only in an update that matched it to a detection: an     *)
(* update that leaves a track unmatched leaves its counted flag and its     *)
(* direction as they were, and an update that matches no track counts       *)
(* nothing.                                                                 *)
C36_CountedOnlyWhenMatched ==
    [][ lastOp'.op = "update" =>
          /\ \A u \in RisenInStep : u.track_id \in lastOp'.matched
          /\ \A t \in Range(trackers) : \A u \in Range(trackers') \cup lastOp'.evicted :
                (u.track_id = t.track_id /\ t.track_id \notin lastOp'.matched)
                    => (u.counted = t.counted /\ u.direction = t.direction)
          /\ lastOp'.matched = {} =>
                (counts' = counts /\ total_counts' = total_counts /\ countLog' = countLog) ]_vars

\* a track that went across the line with its fifth position, seen for the
\* last time before the clock moved, has gone through an update without a
\* detection: it is live, uncounted, and nothing has been counted
C36_Witness ==
    /\ lastOp.op = "update"
    /\ lastOp.matched = {}
    /\ lastOp.unmatched = 0
    /\ countLog = <<>>
    /\ \E t \in Range(trackers) :
          /\ Len(t.positions) = 5
          /\ t.last_seen < now
          /\ CrossesAt(t, lastOp.line_x)
          /\ ~t.counted

(* C37: get_vehicle_counter returns the same VehicleCounter instance to     *)
(* every caller, also when request threads make their first calls           *)
(* concurrently: at most one instance is ever constructed, and the instance *)
(* the video stream updates is the one the API routes read and reset.       *)
C37_OneInstance ==
    /\ constructed <= 1
    /\ \A t, u \in Threads :
          (vehicle_counter[t] # 0 /\ vehicle_counter[u] # 0)
              => vehicle_counter[t] = vehicle_counter[u]

====
